---- MODULE Spec2Model ----
(***************************************************************************)
(* A model of the orchestration engine of llm-rag-mcp-orchestrator:        *)
(*   - the session graph of orchestrator/nodes.py (moderation, router,     *)
(*     agent, reflector, check_next, finalize), with the Moderator of      *)
(*     orchestrator/moderator.py, the Router.execute decoding of           *)
(*     orchestrator/router.py and the Pricer of pricer.py.                 *)
(***************************************************************************)
EXTENDS Integers, Sequences, FiniteSets, TLC

(***************************************************************************)
(* Bounds of the model and program constants.                              *)
(***************************************************************************)
\* The longest route list the router's model output holds.
MaxRoutes == 2

\* The graph runtime stops a session that has not reached END after this many
\* node executions (LangGraph's recursion_limit: 25 by default; scaled down
\* here, and larger than the longest session whose retries are bounded).
RecursionLimit == 12

\* config.py: orch_cfg.pop("max_reflections", 2)
max_reflections == 2

None == "None"

(***************************************************************************)
(* Moderator (orchestrator/moderator.py).  A query is described by what    *)
(* moderate() looks at: whether it is empty or whitespace, and whether it  *)
(* matches a BLOCK_PATTERNS or a WARN_PATTERNS entry.                      *)
(***************************************************************************)
Queries ==
    { q \in [empty : BOOLEAN, block : BOOLEAN, warn : BOOLEAN] :
        q.empty => (~q.block /\ ~q.warn) }

\* Mutant of moderate: the warn patterns are tried before the block patterns.
moderateWarnFirst(text) ==
    IF text.empty THEN [verdict |-> "block", reason |-> "Empty input"]
    ELSE IF text.warn THEN [verdict |-> "warn", reason |-> "security"]
    ELSE IF text.block THEN [verdict |-> "block", reason |-> "pattern"]
    ELSE [verdict |-> "allow", reason |-> None]

moderate(text) ==
    IF text.empty THEN [verdict |-> "block", reason |-> "Empty input"]
    ELSE IF text.block THEN [verdict |-> "block", reason |-> "pattern"]
    ELSE IF text.warn THEN [verdict |-> "warn", reason |-> "security"]
    ELSE [verdict |-> "allow", reason |-> None]

\* Mutant of is_blocked: no verdict blocks.
is_blocked_never(m) == FALSE

\* Moderation.is_blocked
is_blocked(m) == m.verdict = "block"

\* state.get("moderation") before the moderation node has run
NoModeration == [verdict |-> None, reason |-> None]

(***************************************************************************)
(* Router (orchestrator/router.py).                                        *)
(***************************************************************************)
\* The intent catalog the router was built with (Router._intent_names).
IntentNames == {"smalltalk", "chat", "weather"}

\* Intent names a model may emit; "bogus" is not in the catalog.
RawIntents == IntentNames \cup {"bogus"}

EmptyParams == {}
ParamSets == {EmptyParams, {"query"}}

SeqsUpTo(S, n) == UNION { [1..k -> S] : k \in 0..n }

\* response.text of the routing call: text that is not JSON of the schema
\* ("malformed"), or a JSON object whose "intents" list is the given one.
RawItems == [intent : RawIntents, params : ParamSets]
ModelOutputs(items) ==
    {[json |-> FALSE, intents |-> <<>>]}
        \cup { [json |-> TRUE, intents |-> s] : s \in SeqsUpTo(items, MaxRoutes) }

\* self._RoutingResult.model_validate_json for the enum built from `names`.
validate(text, names) ==
    /\ text.json
    /\ \A i \in 1..Len(text.intents) : text.intents[i].intent \in names

\* Router.execute with the catalog `names`.
execute(text, names) ==
    IF validate(text, names)
    THEN text.intents
    ELSE << [intent |-> "chat", params |-> EmptyParams] >>

\* RoutingResult.model_validate_json: the text is JSON of the schema and every
\* item's intent is a member of IntentEnum.
model_validate_json(text) == validate(text, IntentNames)

\* Router.execute: the validated items in order, or the chat fallback.
RouterExecute(text) == execute(text, IntentNames)

(***************************************************************************)
(* Pricer (pricer.py).                                                     *)
(***************************************************************************)
\* TokenUsage.input_tokens / output_tokens of one LLM call.
Usages == { [input_tokens |-> 0, output_tokens |-> 0],
            [input_tokens |-> 2, output_tokens |-> 1] }

RECURSIVE SumInput(_)
SumInput(entries) ==
    IF entries = <<>> THEN 0
    ELSE entries[1].input_tokens + SumInput(Tail(entries))

RECURSIVE SumOutput(_)
SumOutput(entries) ==
    IF entries = <<>> THEN 0
    ELSE entries[1].output_tokens + SumOutput(Tail(entries))

\* Pricer.__init__
PricerInit == [total_input |-> 0, total_output |-> 0]

\* Pricer.add(entries): nothing for an empty list, else the step's sums are
\* added to the running totals.
PricerAdd(p, entries) ==
    IF entries = <<>> THEN p
    ELSE [total_input |-> p.total_input + SumInput(entries),
          total_output |-> p.total_output + SumOutput(entries)]

\* Pricer.summary()["total"]
PricerSummary(p) ==
    [input_tokens |-> p.total_input, output_tokens |-> p.total_output]

(***************************************************************************)
(* The session graph (orchestrator/nodes.py).                              *)
(***************************************************************************)
VARIABLES
    node,             \* the node the graph runs next; "END", "error" or "aborted" once stopped
    steps,            \* node executions so far (the runtime's step counter)
    query,            \* State.query
    history,          \* State.history
    use_reflection,   \* State.use_reflection
    moderation,       \* State.moderation
    agent_requests,   \* State.agent_requests
    agent_responses,  \* State.agent_responses
    reflection,       \* State.reflection
    token_log,        \* State.token_log (reducer: operator.add)
    pricer,           \* the Pricer fed with every step's token_log delta
    verdicts,         \* history: what reflect() returned, in order, with the answer it judged
    retries,          \* history: retry executions of the agent for the current route
    agent_runs,       \* history: agent executions so far (names the answers)
    agent_calls,      \* history: per agent execution, whether its tool server was down and what the reply says
    spent,            \* history: summed usage of every router, agent and reflector call
    events            \* the node names of the (node_name, state_delta) events streamed so far

\* Router.execute applied to one model output (router.py)
VARIABLES
    router_text,      \* response.text of the routing call
    router_out        \* <<>> before the call, << the returned intents >> after it

\* chat_stream.event_generator at the finalize / blocked event (api.py)
VARIABLES
    intent_results,   \* acc["intent_results"]
    sse_answers       \* <<>> before the event, << the results of the answer events >> after it

\* MCPClient (mcp/client.py)
VARIABLES
    clients,          \* MCPClient._clients: server -> connection, {} when absent
    call_pc,          \* per caller: where its MCPClient.call stands
    call_server,      \* per caller: the server argument
    call_client,      \* per caller: the connection its pending call_tool runs on
    call_events,      \* history, per caller: what the call did, in order
    call_raised,      \* per caller: the exception that left the call, None when none
    connections,      \* connections opened so far (names the next one)
    calls_started,    \* calls started so far
    call_payload      \* per caller: <<>>, or << the keys of the dict MCPHandler.handle returned >>

\* ServiceRegistry and the router's catalog (orchestrator/services.py, router.py)
VARIABLES
    up,               \* environment: the servers that answer now
    server_tools,     \* environment: the tool names each server lists
    flips,            \* environment: how often a server went up or down so far
    boot_pc,          \* ServiceRegistry.startup: "connect", "discover", "ready"
    discovered,       \* ServiceRegistry._discovered
    agents,           \* ServiceRegistry.agents: one [name, server] per key
    routing,          \* the keys of ServiceRegistry.routing
    intent_names,     \* Router._intent_names without repetitions (the IntentEnum members)
    descriptions,     \* Router._descriptions: how many lines each intent name has
    ses_pc,           \* per session: where its refresh() stands
    ses_pending,      \* per session: servers its refresh has still to reconnect
    ses_new,          \* per session: newly_connected
    ses_up,           \* history, per session: servers that answered from its start until now
    boot_failed       \* history: servers whose connection failed at startup

\* The graph of orchestrator/orchestrator.py, whose nodes are the Moderator,
\* Router and Reflector objects themselves (Moderator.__call__,
\* Router.__call__, Reflector.__call__)
VARIABLES
    og_node,          \* the node that runs next; "END", "error" or "aborted" once stopped
    og_intents,       \* state["intents"]
    og_index,         \* state["current_intent_index"]
    og_feedback,      \* state["reflection_feedback"]
    og_count,         \* state["reflection_count"]
    og_query,         \* state["query"]
    og_use_reflection, \* state["use_reflection"]
    og_responses,     \* state["intent_responses"], each reply named by the execution that gave it
    og_tools_used,    \* tools_used of the agent's last result
    og_agent,         \* history: the key of the agent the last execution invoked
    og_steps,         \* node executions so far (the runtime's step counter)
    og_runs,          \* history: agent executions so far
    og_done,          \* history: the positions of the route list the agent has executed
    og_trace          \* history: the nodes that have run, in order

\* One ask / query call of a chat provider (llm/gemini.py, anthropic.py,
\* openai.py, ollama.py)
VARIABLES
    chat_provider,    \* the class of the Chat object
    chat_op,          \* "ask" (no tools), "ask_tools" or "query"
    chat_pc,          \* "idle", "create" (an API call is pending), "returned", "raised"
    chat_round,       \* API calls of the tool loop made so far
    chat_requests,    \* requests sent to the provider by this call
    chat_tokens,      \* input_tokens / output_tokens summed over the tool loop
    chat_tools_used,  \* tools_used of the tool loop, as its length
    chat_failed,      \* history: an API call of this operation ended in an API error
    chat_reply        \* <<>>, or << the Reply returned >>

\* MetricsTracker (metrics/tracker.py), record() called from several threads
VARIABLES
    request_counter,  \* MetricsTracker._request_counter
    requests,         \* MetricsTracker._requests, as the request ids in list order
    tracker_lock,     \* MetricsTracker._lock: the session holding it, None when free
    rec_pc,           \* per session: where its record() call stands
    rec_loaded,       \* per session: the counter value its += has read
    rec_id,           \* per session: the number in the request_id of its RequestMetrics
    rec_calls         \* history: record() calls started so far

\* Moderator.moderate (orchestrator/moderator.py) and run_moderation
\* (safety/filters.py) applied to one text
VARIABLES
    mod_text,         \* the text, as a sequence of words and whitespace
    mod_llm,          \* how the classifier passed as llm behaves on it
    mod_out,          \* <<>>, or << what Moderator.moderate returned >>
    filt_out          \* <<>>, or << what run_moderation returned >>

\* Reflector._parse_reflection applied to one evaluator output (reflector.py)
VARIABLES
    refl_text,        \* response.text of the evaluator
    refl_agent_success, \* the agent_success argument
    refl_pc,          \* "idle", "call", "returned", "raised"
    refl_out          \* <<>>, or << the dict returned >>

gvars == << node, steps, query, history, use_reflection, moderation, agent_requests,
            agent_responses, reflection, token_log, pricer, verdicts, retries,
            agent_runs, agent_calls, spent, events >>
rvars == << router_text, router_out >>
svars == << intent_results, sse_answers >>
mvars == << clients, call_pc, call_server, call_client, call_events,
            call_raised, connections, calls_started, call_payload >>

kvars == << up, server_tools, flips, boot_pc, discovered, agents, routing,
            intent_names, descriptions, ses_pc, ses_pending, ses_new, ses_up,
            boot_failed >>

ovars == << og_node, og_intents, og_index, og_feedback, og_count, og_query,
            og_use_reflection, og_responses, og_tools_used, og_agent, og_steps,
            og_runs, og_done, og_trace >>

lvars == << chat_provider, chat_op, chat_pc, chat_round, chat_requests, chat_tokens,
            chat_tools_used, chat_failed, chat_reply >>

tvars == << request_counter, requests, tracker_lock, rec_pc, rec_loaded,
            rec_id, rec_calls >>

fvars == << mod_text, mod_llm, mod_out, filt_out >>

pvars == << refl_text, refl_agent_success, refl_pc, refl_out >>

vars == << gvars, rvars, svars, mvars, kvars, ovars, lvars, tvars, fvars, pvars >>

\* What the actions of one part of the model leave alone.
NotGraph == << rvars, svars, mvars, kvars, ovars, lvars, tvars, fvars, pvars >>
NotRouter == << gvars, svars, mvars, kvars, ovars, lvars, tvars, fvars, pvars >>
NotStream == << gvars, rvars, mvars, kvars, ovars, lvars, tvars, fvars, pvars >>
NotMcp == << gvars, rvars, svars, kvars, ovars, lvars, tvars, fvars, pvars >>
NotRegistry == << gvars, rvars, svars, ovars, lvars, tvars, fvars, pvars >>
NotReroute == << gvars, rvars, svars, mvars, kvars, lvars, tvars, fvars, pvars >>
NotLlm == << gvars, rvars, svars, mvars, kvars, ovars, tvars, fvars, pvars >>
NotTracker == << gvars, rvars, svars, mvars, kvars, ovars, lvars, fvars, pvars >>
NotFilters == << gvars, rvars, svars, mvars, kvars, ovars, lvars, tvars, pvars >>
NotParse == << gvars, rvars, svars, mvars, kvars, ovars, lvars, tvars, fvars >>

Actions == {"accept", "retry"}

\* A history: state["history"] (base), followed or not by one turn made of a
\* user message (its content) and an assistant message (the answer it holds).
\* NoHistory stands for None.
NoHistory == [base |-> None, user |-> None, answer |-> 0]
SessionHistory == [base |-> "history", user |-> None, answer |-> 0]

\* list(state["history"]) + [Message(USER, state["query"]),
\* Message(ASSISTANT, agent_response)]
WithTurn(base, user, answer) == [base EXCEPT !.user = user, !.answer = answer]

\* Reflection(): the dataclass defaults.
ReflectionDefault ==
    [count |-> 0, action |-> "accept", retry_query |-> None, retry_history |-> NoHistory]

\* What Reflector.reflect may return as info["action"].
ReflectActions == Actions

ToolLists == { <<>>, << "calculate" >> }

\* Intent.SMALLTALK / Intent.BLOCKED
SMALLTALK == "smalltalk"
BLOCKED == "blocked"

\* The model outputs the router node is fed: params left empty, and one chat
\* route that carries its own query.
GraphItems ==
    [intent : RawIntents, params : {EmptyParams}]
        \cup {[intent |-> "chat", params |-> {"query"}]}

\* The configured servers (MCPClient._configs) and the concurrent callers.
Servers == {"weather", "finance"}
Callers == {"c1", "c2"}

Sessions == {"s1", "s2"}

\* The tool names a server may list.
ToolNames == {"get_weather", "search"}

\* The intents the router is built with, before any tool is registered.
BaseIntents == {"smalltalk", "chat"}

\* Router.__init__: one description line per intent the router is built with.
BaseLines == [n \in BaseIntents \cup ToolNames |-> IF n \in BaseIntents THEN 1 ELSE 0]

\* Router._update: self._descriptions.append(...) for every item of routing
AppendLines(lines, new_routing) ==
    [n \in DOMAIN lines |-> IF n \in new_routing THEN lines[n] + 1 ELSE lines[n]]

\* Each part of the model at rest, for the specifications of the other parts.
RouterIdle ==
    /\ router_text = [json |-> FALSE, intents |-> <<>>]
    /\ router_out = <<>>

StreamIdle ==
    /\ intent_results = <<>>
    /\ sse_answers = <<>>

McpIdle ==
    /\ clients = [s \in Servers |-> {}]
    /\ call_pc = [c \in Callers |-> "idle"]
    /\ call_server = [c \in Callers |-> "weather"]
    /\ call_client = [c \in Callers |-> {}]
    /\ call_events = [c \in Callers |-> <<>>]
    /\ call_raised = [c \in Callers |-> None]
    /\ connections = 0
    /\ calls_started = 0
    /\ call_payload = [c \in Callers |-> <<>>]

RegistryIdle ==
    /\ up = [s \in Servers |-> FALSE]
    /\ server_tools = [s \in Servers |-> {}]
    /\ flips = 0
    /\ boot_pc = "ready"
    /\ discovered = {}
    /\ agents = {}
    /\ routing = {}
    /\ intent_names = BaseIntents
    /\ descriptions = BaseLines
    /\ ses_pc = [x \in Sessions |-> "idle"]
    /\ ses_pending = [x \in Sessions |-> {}]
    /\ ses_new = [x \in Sessions |-> {}]
    /\ ses_up = [x \in Sessions |-> {}]
    /\ boot_failed = {}

TrackerIdle ==
    /\ request_counter = 0
    /\ requests = <<>>
    /\ tracker_lock = None
    /\ rec_pc = [x \in Sessions |-> "idle"]
    /\ rec_loaded = [x \in Sessions |-> 0]
    /\ rec_id = [x \in Sessions |-> 0]
    /\ rec_calls = 0

ParseIdle ==
    /\ refl_text = [fence |-> "none", body |-> [kind |-> "junk"]]
    /\ refl_agent_success = TRUE
    /\ refl_pc = "idle"
    /\ refl_out = <<>>

FiltersIdle ==
    /\ mod_text = <<>>
    /\ mod_llm = "none"
    /\ mod_out = <<>>
    /\ filt_out = <<>>

LlmIdle ==
    /\ chat_provider = "GeminiChat"
    /\ chat_op = "ask"
    /\ chat_pc = "idle"
    /\ chat_round = 0
    /\ chat_requests = 0
    /\ chat_tokens = [input_tokens |-> 0, output_tokens |-> 0]
    /\ chat_tools_used = 0
    /\ chat_failed = FALSE
    /\ chat_reply = <<>>

\* state["reflection_feedback"] as the keys the reflector writes and the
\* router reads, None for a key the dict does not have.
NoFeedback ==
    [action |-> None, query |-> None, history |-> NoHistory, exclude_agent |-> None,
     suggested_agent |-> None, exclude_intent |-> None,
     suggested_intent |-> None]

RerouteIdle ==
    /\ og_node = "END"
    /\ og_intents = <<>>
    /\ og_index = 0
    /\ og_feedback = NoFeedback
    /\ og_count = 0
    /\ og_query = [empty |-> TRUE, block |-> FALSE, warn |-> FALSE]
    /\ og_use_reflection = FALSE
    /\ og_responses = <<>>
    /\ og_tools_used = <<>>
    /\ og_agent = None
    /\ og_steps = 0
    /\ og_runs = 0
    /\ og_done = {}
    /\ og_trace = <<>>

GraphIdle ==
    /\ node = "END"
    /\ steps = 0
    /\ query = [empty |-> TRUE, block |-> FALSE, warn |-> FALSE]
    /\ history = SessionHistory
    /\ use_reflection = FALSE
    /\ moderation = NoModeration
    /\ agent_requests = <<>>
    /\ agent_responses = <<>>
    /\ reflection = ReflectionDefault
    /\ token_log = <<>>
    /\ pricer = PricerInit
    /\ verdicts = <<>>
    /\ retries = 0
    /\ agent_runs = 0
    /\ agent_calls = <<>>
    /\ events = <<>>
    /\ spent = [input_tokens |-> 0, output_tokens |-> 0]

GraphInit ==
    /\ node = "moderation"
    /\ steps = 0
    /\ query \in Queries
    /\ history = SessionHistory
    /\ use_reflection \in BOOLEAN
    /\ moderation = NoModeration
    /\ agent_requests = <<>>
    /\ agent_responses = <<>>
    /\ reflection = ReflectionDefault
    /\ token_log = <<>>
    /\ pricer = PricerInit
    /\ verdicts = <<>>
    /\ retries = 0
    /\ agent_runs = 0
    /\ agent_calls = <<>>
    /\ events = <<>>
    /\ spent = [input_tokens |-> 0, output_tokens |-> 0]

Init ==
    GraphInit /\ RouterIdle /\ StreamIdle /\ McpIdle /\ RegistryIdle /\ RerouteIdle /\ LlmIdle /\ TrackerIdle /\ FiltersIdle /\ ParseIdle

(***************************************************************************)
(* A tool call as the agent of an MCP intent sees it (mcp/client.py,       *)
(* mcp/handler.py, mcp/agent.py).                                          *)
(***************************************************************************)
\* What ends an awaited call_tool: a result, or an exception: the connection
\* dropped, asyncio.wait_for timed out, or the tool failed (ToolError).
CallOutcomes == {"ok", "dropped", "timeout", "tool_error"}
ConnectionReasons == {"dropped", "timeout"}

\* One MCPClient.call with no other caller interleaved: whether a client was
\* cached, and how each connect and each call_tool it reaches ends.
CallRuns ==
    [cached : BOOLEAN, connect0 : BOOLEAN, first : CallOutcomes,
     connect1 : BOOLEAN, retry : CallOutcomes]

\* The server is down for the whole call: no connect succeeds and no
\* call_tool gets through.
ServerDown(run) ==
    /\ ~run.connect0 /\ ~run.connect1
    /\ run.first \in ConnectionReasons /\ run.retry \in ConnectionReasons

\* MCPClient.call: the exception that leaves it, None when it returns.
Call(run) ==
    IF ~run.cached /\ ~run.connect0 THEN "ConnectionError"
    ELSE IF run.first = "ok" THEN None
    ELSE IF ~run.connect1 THEN "ConnectionError"
    ELSE IF run.retry = "ok" THEN None
    ELSE run.retry

\* result.structured_content, as the keys of the dict: the tool's data, or
\* the tool's own error report.
ToolData == { {"data"}, {"error"} }

\* MCPHandler.handle: the keys of the dict it returns. `raised` is the
\* exception that left MCPClient.call (None when it returned `data`); call()
\* itself raises ConnectionError, every other exception is call_tool's.
Handle(raised, data) ==
    IF raised = "ConnectionError" THEN {"error", "unavailable"}
    ELSE IF raised # None THEN {"error"}
    ELSE data

NoTokens == [input_tokens |-> 0, output_tokens |-> 0]

\* Mutant of MCPExecute: the unavailable payload is formatted like tool data.
MCPExecuteFormatsAll(payload, usage) ==
    IF "error" \in payload /\ "unavailable" \notin payload
    THEN [success |-> FALSE, response |-> "error", tokens |-> NoTokens]
    ELSE [success |-> TRUE, response |-> "text", tokens |-> usage]

\* MCPAgent.execute on the handler's payload. `usage` is the usage of the
\* formatting call (none when it failed and the raw data is the response).
MCPExecute(payload, usage) ==
    IF "unavailable" \in payload
    THEN [success |-> FALSE, response |-> "unavailable", tokens |-> NoTokens]
    ELSE IF "error" \in payload
    THEN [success |-> FALSE, response |-> "error", tokens |-> NoTokens]
    ELSE [success |-> TRUE, response |-> "text", tokens |-> usage]

\* The intents whose agent is an MCPAgent.
McpIntents == {"weather"}

\* The keys of the agents dict the graph is built with: the chat agent and one
\* MCPAgent per registered tool (ServiceRegistry.agents).
AgentKeys == {"chat"} \cup McpIntents

\* agents.get(intent, agents[Intent.CHAT])
AgentFor(intent) == IF intent \in AgentKeys THEN intent ELSE "chat"

\* result = await agent.execute(...), as _agent_node reads it; `down` records
\* that the tool server was down for the whole call.
AgentResults(intent) ==
    IF intent \in McpIntents
    THEN { LET r == MCPExecute(Handle(Call(run), data), usage)
           IN  [success |-> r.success, tools_used |-> <<>>, tokens |-> r.tokens,
                response |-> r.response, down |-> ServerDown(run)] :
           run \in CallRuns, data \in ToolData, usage \in Usages }
    ELSE [success : BOOLEAN, tools_used : ToolLists, tokens : Usages,
          response : {"text"}, down : {FALSE}]

\* One call's usage added to the history total.
Spend(u) ==
    [input_tokens |-> spent.input_tokens + u.input_tokens,
     output_tokens |-> spent.output_tokens + u.output_tokens]

\* Mutant of Reduce: the update overwrites the log (no reducer).
ReduceOverwrites(log, delta) == delta

\* State.token_log: Annotated[list[TokenUsage], operator.add]
Reduce(log, delta) == log \o delta

\* The session driver: the token_log delta of every step goes to Pricer.add.
Report(p, delta) == PricerAdd(p, delta)

\* Mutant of Emit: the sequencing node is not reported.
EmitSkipsCheckNext(evs, name) ==
    IF name = "check_next" THEN evs ELSE Append(evs, name)

\* The session driver streams one (node_name, state_delta) event for the node
\* that has just run.
Emit(evs, name) == Append(evs, name)

\* A node's Command(update={"token_log": delta}): the reducer adds the delta to
\* the state's log, and the session driver hands the step's delta to Pricer.add.
LogDelta(delta) ==
    /\ token_log' = Reduce(token_log, delta)
    /\ pricer' = Report(pricer, delta)

Running == node \notin {"END", "error", "aborted"}

\* _moderation_node
ModerationNode ==
    /\ node = "moderation" /\ steps < RecursionLimit
    /\ moderation' = moderate(query)
    /\ node' = IF is_blocked(moderate(query)) THEN "finalize" ELSE "router"
    /\ steps' = steps + 1
    /\ events' = Emit(events, "moderation")
    /\ UNCHANGED << query, history, use_reflection, agent_requests, agent_responses,
                    reflection, token_log, pricer, verdicts, retries,
                    agent_runs, agent_calls, spent >>
    /\ UNCHANGED NotGraph

\* _router_node
RouterNode ==
    /\ node = "router" /\ steps < RecursionLimit
    /\ \E text \in ModelOutputs(GraphItems), tokens \in Usages :
        /\ agent_requests' = RouterExecute(text)
        /\ LogDelta(<< tokens >>)
        /\ spent' = Spend(tokens)
    /\ node' = "agent"
    /\ steps' = steps + 1
    /\ events' = Emit(events, "router")
    /\ UNCHANGED << query, history, use_reflection, moderation, agent_responses,
                    reflection, verdicts, retries, agent_runs, agent_calls >>
    /\ UNCHANGED NotGraph

\* _agent_node: is_retry
IsRetry(refl) == refl.action = "retry" /\ refl.retry_query # None

\* _agent_node
AgentNode ==
    /\ node = "agent" /\ steps < RecursionLimit
    /\ steps' = steps + 1
    /\ UNCHANGED NotGraph
    /\ LET is_retry == IsRetry(reflection)
           \* the 1-based position of state["agent_requests"][idx]
           pos == IF is_retry THEN Len(agent_responses) ELSE Len(agent_responses) + 1
       IN
       IF pos \notin 1..Len(agent_requests)
       THEN \* IndexError leaves the node
            /\ node' = "error"
            /\ UNCHANGED << query, history, use_reflection, moderation, agent_requests,
                            agent_responses, reflection, token_log, pricer,
                            verdicts, retries, agent_runs, agent_calls, spent,
                            events >>
       ELSE \E result \in AgentResults(AgentFor(agent_requests[pos].intent)) :
            LET intent == agent_requests[pos].intent
                success == result.success
                tools_used == result.tools_used
                tokens == result.tokens
                entry == [intent |-> intent, answer |-> agent_runs + 1,
                          success |-> success, tools_used |-> tools_used]
                skip_reflection == intent = SMALLTALK /\ tools_used = <<>>
                params == agent_requests[pos].params
                \* params.get("query") or state["query"]
                own_query == IF "query" \in params THEN "params_query" ELSE "query"
                query_arg == IF is_retry THEN reflection.retry_query ELSE own_query
                \* refl.retry_history or history
                history_arg == IF is_retry /\ reflection.retry_history # NoHistory
                               THEN reflection.retry_history ELSE history
            IN
            /\ agent_responses' =
                  IF is_retry /\ agent_responses # <<>>
                  THEN [agent_responses EXCEPT ![Len(agent_responses)] = entry]
                  ELSE Append(agent_responses, entry)
            /\ LogDelta(<< tokens >>)
            /\ reflection' = IF is_retry THEN reflection ELSE ReflectionDefault
            /\ node' = IF use_reflection /\ ~skip_reflection
                       THEN "reflector" ELSE "check_next"
            /\ agent_runs' = agent_runs + 1
            /\ events' = Emit(events, "agent")
            /\ agent_calls' = Append(agent_calls,
                    [down |-> result.down, response |-> result.response,
                     pos |-> pos, query |-> query_arg, history |-> history_arg,
                     agent |-> AgentFor(intent)])
            /\ retries' = IF is_retry THEN retries + 1 ELSE 0
            /\ spent' = Spend(tokens)
            /\ UNCHANGED << query, history, use_reflection, moderation, agent_requests,
                            verdicts >>

\* Mutant of ConvertAction: a retry is passed on in a multi-route session.
ConvertActionOff(action, intents) == action

\* _reflector_node: the multi-intent conversion of retry to accept
ConvertAction(action, intents) ==
    IF Len(intents) > 1 /\ action = "retry" THEN "accept" ELSE action

\* Mutant of SetsRetry: the retry context is stored whatever the count.
SetsRetryAlways(action, reflection_count) == action = "retry"

\* _reflector_node: info["action"] == Action.RETRY and
\* reflection_count < reflector.max_reflections
SetsRetry(action, reflection_count) ==
    action = "retry" /\ reflection_count < max_reflections

\* _reflector_node
ReflectorNode ==
    /\ node = "reflector" /\ steps < RecursionLimit
    /\ steps' = steps + 1
    /\ events' = Emit(events, "reflector")
    /\ \E info_action \in ReflectActions, tokens \in Usages :
        LET action == ConvertAction(info_action, agent_requests)
            reflection_count == reflection.count + 1
            set_retry == SetsRetry(action, reflection_count)
        IN
        /\ reflection' =
              [count |-> reflection_count,
               action |-> action,
               retry_query |-> IF set_retry THEN "retry_query" ELSE None,
               retry_history |->
                   IF set_retry
                   THEN WithTurn(history, "query",
                                 agent_responses[Len(agent_responses)].answer)
                   ELSE NoHistory]
        /\ verdicts' = Append(verdicts,
                [action |-> info_action,
                 answer |-> agent_responses[Len(agent_responses)].answer])
        /\ LogDelta(<< tokens >>)
        /\ spent' = Spend(tokens)
    /\ node' = "check_next"
    /\ UNCHANGED << query, history, use_reflection, moderation, agent_requests,
                    agent_responses, retries, agent_runs, agent_calls >>
    /\ UNCHANGED NotGraph

\* Mutant of CheckNextNode: a retry stores its history over State.history.
CheckNextNodeStoring ==
    /\ node = "check_next" /\ steps < RecursionLimit
    /\ steps' = steps + 1
    /\ events' = Emit(events, "check_next")
    /\ node' = IF reflection.action = "retry" /\ reflection.retry_query # None
               THEN "agent"
               ELSE IF Len(agent_responses) < Len(agent_requests)
                    THEN "agent" ELSE "finalize"
    /\ LogDelta(<< >>)
    /\ history' = IF reflection.action = "retry" /\ reflection.retry_query # None
                  THEN reflection.retry_history ELSE history
    /\ UNCHANGED << query, use_reflection, moderation, agent_requests,
                    agent_responses, reflection, verdicts, retries, agent_runs, agent_calls,
                    spent >>
    /\ UNCHANGED NotGraph

\* _check_next_node
CheckNextNode ==
    /\ node = "check_next" /\ steps < RecursionLimit
    /\ steps' = steps + 1
    /\ events' = Emit(events, "check_next")
    /\ node' = IF reflection.action = "retry" /\ reflection.retry_query # None
               THEN "agent"
               ELSE IF Len(agent_responses) < Len(agent_requests)
                    THEN "agent" ELSE "finalize"
    /\ LogDelta(<< >>)
    /\ UNCHANGED << query, history, use_reflection, moderation, agent_requests,
                    agent_responses, reflection, verdicts, retries, agent_runs, agent_calls,
                    spent >>
    /\ UNCHANGED NotGraph

\* Mutant of Finalize: the block override is missing.
FinalizeKeepsReplies(m, responses) == responses

\* _finalize_node: the agent_responses of the final update
Finalize(m, responses) ==
    IF m # NoModeration /\ is_blocked(m)
    THEN << [intent |-> BLOCKED, answer |-> 0, success |-> FALSE,
             tools_used |-> <<>>] >>
    ELSE responses

\* _finalize_node
FinalizeNode ==
    /\ node = "finalize" /\ steps < RecursionLimit
    /\ steps' = steps + 1
    /\ events' = Emit(events, "finalize")
    /\ agent_responses' = Finalize(moderation, agent_responses)
    /\ node' = "END"
    /\ UNCHANGED << query, history, use_reflection, moderation, agent_requests,
                    reflection, token_log, pricer, verdicts, retries,
                    agent_runs, agent_calls, spent >>
    /\ UNCHANGED NotGraph

\* The graph runtime: a session still running at the recursion limit is
\* stopped with GraphRecursionError.
RecursionLimitReached ==
    /\ Running /\ steps >= RecursionLimit
    /\ node' = "aborted"
    /\ UNCHANGED << steps, query, history, use_reflection, moderation, agent_requests,
                    agent_responses, reflection, token_log, pricer, verdicts,
                    retries, agent_runs, agent_calls, spent,
                    events >>
    /\ UNCHANGED NotGraph

Next ==
    \/ ModerationNode
    \/ RouterNode
    \/ AgentNode
    \/ ReflectorNode
    \/ CheckNextNode
    \/ FinalizeNode
    \/ RecursionLimitReached

Spec == Init /\ [][Next]_vars

(***************************************************************************)
(* Router.execute as a function of the model's output (router.py).         *)
(***************************************************************************)
RouterInit ==
    /\ router_text \in ModelOutputs(RawItems)
    /\ router_out = <<>>
    /\ GraphIdle /\ StreamIdle /\ McpIdle /\ RegistryIdle /\ RerouteIdle /\ LlmIdle /\ TrackerIdle /\ FiltersIdle /\ ParseIdle

\* result = await self.execute(...)
RouterCall ==
    /\ router_out = <<>>
    /\ router_out' = << RouterExecute(router_text) >>
    /\ UNCHANGED << router_text, NotRouter >>

RouterNext == RouterCall

RouterSpec == RouterInit /\ [][RouterNext]_vars

(***************************************************************************)
(* chat_stream.event_generator at the last event of a session (api.py).    *)
(***************************************************************************)
\* The longest intent_results list.
MaxResults == 2

\* (r.get("reflection") or {}).get("score", 1.0) >= 0.7, scores in tenths
GoodScore == 7
DefaultScore == 10

\* A result's reflection: none, or one with a score of 0.4 or 0.8.
Reflections == { [present |-> FALSE, score |-> DefaultScore] }
                  \cup { [present |-> TRUE, score |-> x] : x \in {4, 8} }

IntentResults ==
    [intent : {"chat", "weather"}, success : BOOLEAN, reflection : Reflections]

Score(r) == IF r.reflection.present THEN r.reflection.score ELSE DefaultScore

IsGood(r) == Score(r) >= GoodScore

\* event_generator, node_name in ("finalize", "blocked"): the results the
\* answer events carry.
FinalResults(results) ==
    IF Len(results) > 1
    THEN LET good == SelectSeq(results, IsGood)
         IN  IF good # <<>> THEN good ELSE results
    ELSE results

StreamInit ==
    /\ intent_results \in SeqsUpTo(IntentResults, MaxResults)
    /\ sse_answers = <<>>
    /\ GraphIdle /\ RouterIdle /\ McpIdle /\ RegistryIdle /\ RerouteIdle /\ LlmIdle /\ TrackerIdle /\ FiltersIdle /\ ParseIdle

\* the finalize event of a session that was not blocked
StreamFinalize ==
    /\ sse_answers = <<>>
    /\ sse_answers' = << FinalResults(intent_results) >>
    /\ UNCHANGED << intent_results, NotStream >>

StreamNext == StreamFinalize

StreamSpec == StreamInit /\ [][StreamNext]_vars

(***************************************************************************)
(* Claims about the session graph.                                         *)
(***************************************************************************)
Stopped == ~Running

\* Len(agent_responses) while a session runs: the routes started so far.
cursor == Len(agent_responses)

LastVerdict == verdicts[Len(verdicts)]

\* C1: for every route, the agent node is re-entered as a retry of that route
\* at most max_reflections times, whatever the reflector and the agent return.
C1_RetriesWithinMaxReflections == retries <= max_reflections

\* C2: every session reaches finalize: no sequence of reflector verdicts and
\* agent outcomes keeps the graph cycling among agent, reflector and
\* check_next until the runtime gives up.
C2_NoSessionCyclesForever == node # "aborted"

BlockedOutput ==
    << [intent |-> BLOCKED, answer |-> 0, success |-> FALSE, tools_used |-> <<>>] >>

\* C3: when moderate(query) returns block the final output is exactly one
\* result with intent = blocked and success = FALSE, whatever replies the
\* state holds when finalize runs.
C3_BlockedSessionOutput ==
    /\ (node = "END" /\ is_blocked(moderate(query)))
          => (/\ Len(agent_responses) = 1
              /\ agent_responses[1].intent = BLOCKED
              /\ agent_responses[1].success = FALSE)
    /\ \A q \in Queries :
          is_blocked(moderate(q)) =>
              LET out == Finalize(moderate(q), agent_responses)
              IN  Len(out) = 1 /\ out[1].intent = BLOCKED /\ out[1].success = FALSE

C3_Witness ==
    /\ node = "END" /\ is_blocked(moderate(query))
    /\ agent_responses = BlockedOutput

\* C4: the cursor is at most len(routes) in every state of a running session
\* and the agent node never indexes the route list out of range.
C4_CursorWithinRoutes ==
    /\ node # "error"
    /\ Running => cursor <= Len(agent_requests)

IsPrefix(s, t) == Len(s) <= Len(t) /\ SubSeq(t, 1, Len(s)) = s

\* The router, agent and reflector calls made so far.
Calls == (IF moderation # NoModeration /\ ~is_blocked(moderation) /\ node # "router"
          THEN 1 ELSE 0) + agent_runs + Len(verdicts)

C6_RetryReplacesOnlyTheCursorReply ==
    /\ [][ (node = "agent" /\ IsRetry(reflection) /\ node' # "aborted")
             => /\ agent_requests' = agent_requests
                /\ Len(agent_responses') = Len(agent_responses)
                /\ \A i \in 1..(Len(agent_responses) - 1) :
                      agent_responses'[i] = agent_responses[i] ]_vars
    /\ [] ( ( /\ node = "END"
              /\ Len(agent_requests) = 1
              /\ Len(verdicts) = 2
              /\ verdicts[1].action = "retry"
              /\ verdicts[2].action = "accept" )
            => ( /\ Len(agent_responses) = 1
                 /\ agent_responses[1].answer = 2 ) )

(***************************************************************************)
(* MCPClient.call (mcp/client.py).  A caller is suspended at each await: in *)
(* _connect_one (client.__aenter__) and in call_tool.                      *)
(***************************************************************************)
\* The calls the callers start, all together.
MaxCalls == 2

Event(c, e) == call_events' = [call_events EXCEPT ![c] = Append(@, e)]

\* self._clients.pop(server, None)
EvictOnFailure(cl, server) == [cl EXCEPT ![server] = {}]

McpInit ==
    /\ clients \in [Servers -> {{}, {0}}]
    /\ call_pc = [c \in Callers |-> "idle"]
    /\ call_server = [c \in Callers |-> "weather"]
    /\ call_client = [c \in Callers |-> {}]
    /\ call_events = [c \in Callers |-> <<>>]
    /\ call_raised = [c \in Callers |-> None]
    /\ connections = 0
    /\ calls_started = 0
    /\ call_payload = [c \in Callers |-> <<>>]
    /\ GraphIdle /\ RouterIdle /\ StreamIdle /\ RegistryIdle /\ RerouteIdle /\ LlmIdle /\ TrackerIdle /\ FiltersIdle /\ ParseIdle

\* call(): client = self._clients.get(server); with no client the caller
\* enters reconnect() and is suspended in _connect_one.
CallStart(c) ==
    /\ call_pc[c] = "idle" /\ calls_started < MaxCalls
    /\ calls_started' = calls_started + 1
    /\ \E server \in Servers :
        /\ call_server' = [call_server EXCEPT ![c] = server]
        /\ call_raised' = [call_raised EXCEPT ![c] = None]
        /\ call_payload' = [call_payload EXCEPT ![c] = <<>>]
        /\ IF clients[server] # {}
           THEN /\ call_client' = [call_client EXCEPT ![c] = clients[server]]
                /\ call_pc' = [call_pc EXCEPT ![c] = "attempt1"]
                /\ call_events' = [call_events EXCEPT ![c] = << "call_tool" >>]
           ELSE /\ call_client' = [call_client EXCEPT ![c] = {}]
                /\ call_pc' = [call_pc EXCEPT ![c] = "connect0"]
                /\ call_events' = [call_events EXCEPT ![c] = << "connect" >>]
    /\ UNCHANGED << clients, connections >>
    /\ UNCHANGED NotMcp

\* _connect_one returns inside reconnect(); reconnect returns
\* server in self._clients. `then` is where the caller goes when that holds.
ConnectDone(c, then) ==
    /\ \E connected \in BOOLEAN :
        LET server == call_server[c]
            cl == IF connected
                  THEN [clients EXCEPT ![server] = {connections + 1}]
                  ELSE clients
        IN
        /\ clients' = cl
        /\ connections' = IF connected THEN connections + 1 ELSE connections
        /\ IF cl[server] # {}
           THEN /\ call_client' = [call_client EXCEPT ![c] = cl[server]]
                /\ call_pc' = [call_pc EXCEPT ![c] = then]
                /\ Event(c, "call_tool")
                /\ UNCHANGED call_raised
           ELSE /\ call_raised' = [call_raised EXCEPT ![c] = "ConnectionError"]
                /\ call_pc' = [call_pc EXCEPT ![c] = "raised"]
                /\ UNCHANGED << call_client, call_events >>
    /\ UNCHANGED << call_server, calls_started, call_payload >>
    /\ UNCHANGED NotMcp

\* call(): the reconnect before the first attempt, when no client was cached
FirstConnectDone(c) ==
    /\ call_pc[c] = "connect0"
    /\ ConnectDone(c, "attempt1")

\* call(): the first call_tool returns or raises; any exception evicts the
\* client and the caller enters reconnect()
FirstAttemptDone(c) ==
    /\ call_pc[c] = "attempt1"
    /\ \E outcome \in CallOutcomes :
        IF outcome = "ok"
        THEN /\ call_pc' = [call_pc EXCEPT ![c] = "returned"]
             /\ UNCHANGED << clients, call_events >>
        ELSE /\ clients' = EvictOnFailure(clients, call_server[c])
             /\ call_pc' = [call_pc EXCEPT ![c] = "connect1"]
             /\ call_events' = [call_events EXCEPT ![c] =
                                    @ \o << outcome, "evict", "connect" >>]
    /\ UNCHANGED << call_server, call_client, call_raised, connections,
                    calls_started, call_payload >>
    /\ UNCHANGED NotMcp

\* call(): the reconnect after the eviction
ReconnectDone(c) ==
    /\ call_pc[c] = "connect1"
    /\ ConnectDone(c, "attempt2")

\* call(): the second call_tool returns, or its exception leaves call()
RetryDone(c) ==
    /\ call_pc[c] = "attempt2"
    /\ \E outcome \in CallOutcomes :
        IF outcome = "ok"
        THEN /\ call_pc' = [call_pc EXCEPT ![c] = "returned"]
             /\ UNCHANGED << call_raised, call_events >>
        ELSE /\ call_pc' = [call_pc EXCEPT ![c] = "raised"]
             /\ call_raised' = [call_raised EXCEPT ![c] = outcome]
             /\ Event(c, outcome)
    /\ UNCHANGED << clients, call_server, call_client, connections,
                    calls_started, call_payload >>
    /\ UNCHANGED NotMcp

\* MCPHandler.handle: call() has returned or raised, and handle returns the
\* payload to the agent; the caller may call again
CallEnd(c) ==
    /\ call_pc[c] \in {"returned", "raised"}
    /\ call_pc' = [call_pc EXCEPT ![c] = "idle"]
    /\ \E data \in ToolData :
          call_payload' = [call_payload EXCEPT ![c] = << Handle(call_raised[c], data) >>]
    /\ UNCHANGED << clients, call_server, call_client, call_events,
                    call_raised, connections, calls_started >>
    /\ UNCHANGED NotMcp

McpNext ==
    \E c \in Callers :
        \/ CallStart(c)
        \/ FirstConnectDone(c)
        \/ FirstAttemptDone(c)
        \/ ReconnectDone(c)
        \/ RetryDone(c)
        \/ CallEnd(c)

McpSpec == McpInit /\ [][McpNext]_vars

\* Each call_tool is awaited under asyncio.wait_for(..., timeout=timeout), so
\* an attempt ends; client.__aenter__() in _connect_one is awaited as it is.
McpLive ==
    /\ McpSpec
    /\ \A c \in Callers :
          /\ WF_vars(FirstAttemptDone(c))
          /\ WF_vars(RetryDone(c))
          /\ WF_vars(CallEnd(c))

Count(ev, e) == Cardinality({i \in 1..Len(ev) : ev[i] = e})

\* C10: a first call_tool attempt that fails for a connection reason evicts
\* the server's cached connection and is followed by exactly one reconnect and
\* at most one retry, a failure of the reconnect or of the retry reaches the
\* caller with no further attempt, and a first attempt that fails for another
\* reason leaves the cached connection in place.
C10_OneReconnectAndRetry ==
    [][ \A c \in Callers :
          LET server == call_server[c]
              ev == call_events'[c]
              failure == ev[Len(call_events[c]) + 1]
          IN
          /\ (call_pc[c] = "attempt1" /\ call_pc'[c] # "attempt1")
               => \/ call_pc'[c] = "returned" /\ clients' = clients
                  \/ /\ failure \in ConnectionReasons
                     /\ clients'[server] = {}
                     /\ call_pc'[c] = "connect1"
                  \/ /\ failure \notin ConnectionReasons
                     /\ clients'[server] = clients[server]
          /\ (call_pc[c] = "connect1" /\ call_pc'[c] # "connect1")
               => \/ call_pc'[c] = "attempt2" /\ Count(ev, "call_tool") = 2
                  \/ call_pc'[c] = "raised" /\ call_raised'[c] = "ConnectionError"
          /\ (call_pc[c] = "attempt2" /\ call_pc'[c] # "attempt2")
               => \/ call_pc'[c] = "returned"
                  \/ call_pc'[c] = "raised" /\ call_raised'[c] = failure
          /\ call_pc[c] \in {"returned", "raised"}
               => call_events'[c] = call_events[c] \/ call_pc'[c] = "attempt1"
                                                 \/ call_pc'[c] = "connect0"
          /\ Count(ev, "evict") <= 1
          /\ Count(ev, "call_tool") <= 2
          /\ Count(ev, "connect") <= 1 + Count(ev, "evict")
      ]_vars

(***************************************************************************)
(* ServiceRegistry.startup and refresh (orchestrator/services.py), with    *)
(* MCPClient.connect / reconnect / discover and Router.add_routes.         *)
(***************************************************************************)
\* How often servers go up or down.
MaxFlips == 3

cvars == << call_pc, call_server, call_client, call_events, call_raised,
            calls_started, call_payload >>

Names(services) == {x.name : x \in services}

\* Mutant of Discover: list_tools failures are not noticed.
DiscoverAll(cl, answering, only) ==
    UNION { {[name |-> t, server |-> s] : t \in server_tools[s]} :
            s \in {z \in only : cl[z] # {}} }

\* MCPClient.discover(servers=only): the services of the connected servers
\* whose list_tools answers; a failure is logged and the server skipped.
Discover(cl, answering, only) ==
    UNION { {[name |-> t, server |-> s] : t \in server_tools[s]} :
            s \in {z \in only : cl[z] # {} /\ answering[z]} }

\* ServiceRegistry._register applied to each service, in any order:
\* self.agents[service.name] = MCPAgent(...) keeps one agent per name.
Registered(old, services) ==
    { A \in SUBSET (old \cup services) :
        /\ Names(A) = Names(old \cup services)
        /\ \A a, b \in A : a.name = b.name => a = b
        /\ \A a \in A : a \in services \/ a.name \notin Names(services) }

\* Mutant of add_routes: the new routes replace the catalog.
add_routes_replacing(names, new_routing) == new_routing

\* Router.add_routes / _update: the names are appended and the enum rebuilt
\* from the list without repetitions.
add_routes(names, new_routing) == names \cup new_routing

RegistryInit ==
    /\ up \in [Servers -> BOOLEAN]
    /\ server_tools \in [Servers -> (SUBSET ToolNames) \ {{}}]
    /\ flips = 0
    /\ boot_pc = "connect"
    /\ discovered = {}
    /\ agents = {}
    /\ routing = {}
    /\ intent_names = BaseIntents
    /\ descriptions = BaseLines
    /\ ses_pc = [x \in Sessions |-> "idle"]
    /\ ses_pending = [x \in Sessions |-> {}]
    /\ ses_new = [x \in Sessions |-> {}]
    /\ ses_up = [x \in Sessions |-> {}]
    /\ boot_failed = {}
    /\ GraphIdle /\ RouterIdle /\ StreamIdle /\ McpIdle /\ RerouteIdle /\ LlmIdle /\ TrackerIdle /\ FiltersIdle /\ ParseIdle

\* A server goes down or comes back.
ServerFlip(s) ==
    /\ flips < MaxFlips
    /\ flips' = flips + 1
    /\ up' = [up EXCEPT ![s] = ~@]
    /\ ses_up' = [x \in Sessions |-> ses_up[x] \ {s}]
    /\ UNCHANGED << server_tools, boot_pc, discovered, agents, routing,
                    intent_names, descriptions, ses_pc, ses_pending, ses_new,
                    boot_failed >>
    /\ UNCHANGED << NotRegistry, mvars >>

\* startup: await self._client.connect(), every _connect_one of the gather
BootConnect ==
    /\ boot_pc = "connect"
    /\ boot_pc' = "discover"
    /\ clients' = [s \in Servers |-> IF up[s] THEN {connections + 1} ELSE {}]
    /\ connections' = connections + 1
    /\ boot_failed' = {s \in Servers : ~up[s]}
    /\ UNCHANGED << up, server_tools, flips, discovered, agents, routing,
                    intent_names, descriptions, ses_pc, ses_pending, ses_new,
                    ses_up >>
    /\ UNCHANGED << NotRegistry, cvars >>

\* startup: discover() and _register of every service; the router is built
\* with the registry's routing
BootDiscover ==
    /\ boot_pc = "discover"
    /\ boot_pc' = "ready"
    /\ LET services == Discover(clients, up, Servers)
       IN  /\ agents' \in Registered(agents, services)
           /\ routing' = routing \cup Names(services)
           /\ discovered' = discovered \cup {x.server : x \in services}
           /\ intent_names' = add_routes(intent_names, Names(services))
           /\ descriptions' = AppendLines(descriptions, Names(services))
    /\ UNCHANGED << up, server_tools, flips, ses_pc, ses_pending, ses_new,
                    ses_up, boot_failed >>
    /\ UNCHANGED << NotRegistry, mvars >>

\* refresh: pending = self._client.servers - self._discovered
RefreshStart(x) ==
    /\ boot_pc = "ready" /\ ses_pc[x] = "idle"
    /\ LET pending == Servers \ discovered
       IN  /\ ses_pc' = [ses_pc EXCEPT ![x] =
                            IF pending = {} THEN "done" ELSE "reconnect"]
           /\ ses_pending' = [ses_pending EXCEPT ![x] = pending]
    /\ ses_new' = [ses_new EXCEPT ![x] = {}]
    /\ ses_up' = [ses_up EXCEPT ![x] = {s \in Servers : up[s]}]
    /\ UNCHANGED << up, server_tools, flips, boot_pc, discovered, agents,
                    routing, intent_names, descriptions, boot_failed >>
    /\ UNCHANGED << NotRegistry, mvars >>

\* refresh: one turn of `for server in pending`, reconnect(server) included,
\* and after the last turn `if not newly_connected: return`
RefreshReconnect(x) ==
    /\ ses_pc[x] = "reconnect"
    /\ \E server \in ses_pending[x] :
        LET opened == clients[server] = {} /\ up[server]
            connected == clients[server] # {} \/ opened
            pending == ses_pending[x] \ {server}
            newly_connected == IF connected THEN ses_new[x] \cup {server}
                                            ELSE ses_new[x]
        IN
        /\ clients' = IF opened
                      THEN [clients EXCEPT ![server] = {connections + 1}]
                      ELSE clients
        /\ connections' = IF opened THEN connections + 1 ELSE connections
        /\ ses_pending' = [ses_pending EXCEPT ![x] = pending]
        /\ ses_new' = [ses_new EXCEPT ![x] = newly_connected]
        /\ ses_pc' = [ses_pc EXCEPT ![x] =
                        IF pending # {} THEN "reconnect"
                        ELSE IF newly_connected = {} THEN "done"
                        ELSE "discover"]
    /\ UNCHANGED << up, server_tools, flips, boot_pc, discovered, agents,
                    routing, intent_names, descriptions, ses_up, boot_failed >>
    /\ UNCHANGED << NotRegistry, cvars >>

\* refresh: discover(servers=newly_connected), _register of every service,
\* self._discovered.update(newly_connected) and router.add_routes
RefreshDiscover(x) ==
    /\ ses_pc[x] = "discover"
    /\ ses_pc' = [ses_pc EXCEPT ![x] = "done"]
    /\ LET services == Discover(clients, up, ses_new[x])
           new_routing == Names(services)
       IN  /\ agents' \in Registered(agents, services)
           /\ routing' = routing \cup new_routing
           /\ discovered' = discovered \cup {z.server : z \in services}
                                       \cup ses_new[x]
           /\ intent_names' = IF new_routing # {}
                              THEN add_routes(intent_names, new_routing)
                              ELSE intent_names
           /\ descriptions' = AppendLines(descriptions, new_routing)
    /\ UNCHANGED << up, server_tools, flips, boot_pc, ses_pending, ses_new,
                    ses_up, boot_failed >>
    /\ UNCHANGED << NotRegistry, mvars >>

\* The model outputs of a routing call on the live catalog: malformed text,
\* or one item naming a built-in intent, a tool or an unknown intent.
CatalogTexts ==
    {[json |-> FALSE, intents |-> <<>>]}
        \cup { [json |-> TRUE, intents |-> << i >>] :
                 i \in [intent : BaseIntents \cup ToolNames \cup {"bogus"},
                        params : {EmptyParams}] }

\* Router.execute of one session, on the catalog as it is now
CatalogRoute ==
    /\ boot_pc = "ready" /\ router_out = <<>>
    /\ \E text \in CatalogTexts :
          /\ router_text' = text
          /\ router_out' = << execute(text, intent_names) >>
    /\ UNCHANGED << gvars, svars, mvars, kvars, ovars, lvars, tvars, fvars, pvars >>

RegistryNext ==
    \/ \E s \in Servers : ServerFlip(s)
    \/ BootConnect
    \/ BootDiscover
    \/ CatalogRoute
    \/ \E x \in Sessions :
          \/ RefreshStart(x)
          \/ RefreshReconnect(x)
          \/ RefreshDiscover(x)

RegistrySpec == RegistryInit /\ [][RegistryNext]_vars

(***************************************************************************)
(* The reroute loop: Reflector.__call__ (orchestrator/reflector.py),       *)
(* Router.__call__ (orchestrator/router.py) and the agent node of          *)
(* orchestrator/orchestrator.py.                                           *)
(***************************************************************************)
VALID_ACTIONS == {"accept", "retry", "reroute"}

\* state.get("max_reflections", 2)
og_max_reflections == 2

\* intent_data.get("agent"): the routes Router.execute builds have the keys
\* "intent" and "params" only.
AgentOf(intent_data) == None

\* A session starts at the entry point "safety"
RerouteInit ==
    /\ og_node = "safety"
    /\ og_intents = <<>>
    /\ og_index = 0
    /\ og_feedback = NoFeedback
    /\ og_count = 0
    /\ og_query \in Queries
    /\ og_use_reflection \in BOOLEAN
    /\ og_responses = <<>>
    /\ og_tools_used = <<>>
    /\ og_agent = None
    /\ og_steps = 0
    /\ og_runs = 0
    /\ og_done = {}
    /\ og_trace = <<>>
    /\ GraphIdle /\ RouterIdle /\ StreamIdle /\ McpIdle /\ RegistryIdle /\ LlmIdle /\ TrackerIdle /\ FiltersIdle /\ ParseIdle

\* One node execution of the graph runtime
OldStep(name) ==
    /\ og_node = name /\ og_steps < RecursionLimit
    /\ og_steps' = og_steps + 1
    /\ og_trace' = Append(og_trace, name)

\* Orchestrator.initialize: the keys of self._agents, f"{server}_{name}" for
\* a tool, and the intent each is routed by (RoutingMeta.intent).
OldAgentKeys == {"TalkAgent", "weather_weather"}
OldRoutingIntent == [TalkAgent |-> "chat", weather_weather |-> "weather"]

\* Moderator.__call__
OldSafety ==
    /\ OldStep("safety")
    /\ og_node' = IF is_blocked(moderate(og_query)) THEN "blocked" ELSE "router"
    /\ UNCHANGED << og_intents, og_index, og_feedback, og_count, og_query,
                    og_use_reflection, og_responses, og_tools_used, og_agent, og_runs, og_done >>
    /\ UNCHANGED NotReroute

\* Reflector.__call__
OldReflector ==
    /\ OldStep("reflector")
    /\ \E action \in VALID_ACTIONS, suggested_agent \in {None} \cup IntentNames :
        LET idx == og_index - 1
            intent_data == og_intents[idx + 1]
            reflection_count == og_count + 1
        IN
        /\ og_feedback' =
              [NoFeedback EXCEPT
                 !.action = action,
                 !.suggested_agent = suggested_agent,
                 !.query = IF action = "retry" THEN "feedback"
                           ELSE IF action = "reroute" THEN "query" ELSE None,
                 !.history = IF action = "retry"
                             THEN WithTurn(SessionHistory, "query", og_runs)
                             ELSE NoHistory,
                 !.exclude_agent = IF action = "reroute"
                                   THEN AgentOf(intent_data) ELSE None]
        /\ og_count' = reflection_count
        /\ og_index' = IF action = "retry" THEN idx ELSE og_index
        /\ og_node' = IF reflection_count >= og_max_reflections THEN "check_next"
                      ELSE IF action = "retry" THEN "agent"
                      ELSE IF action = "reroute" THEN "router"
                      ELSE "check_next"
    /\ UNCHANGED << og_intents, og_query, og_use_reflection, og_responses, og_tools_used, og_agent,
                    og_runs, og_done >>
    /\ UNCHANGED NotReroute

\* Router.__call__
OldRouter ==
    /\ OldStep("router")
    /\ \E text \in ModelOutputs(GraphItems) :
        LET reroute == og_feedback.action = "reroute"
            exclude_intent == IF reroute THEN og_feedback.exclude_intent ELSE None
            suggested_intent == IF reroute THEN og_feedback.suggested_intent ELSE None
            result == RouterExecute(text)
            idx == og_index - 1
            new_intent ==
                IF result # <<>> /\ result[1].intent # exclude_intent
                THEN result[1]
                ELSE [intent |-> IF suggested_intent # None
                                 THEN suggested_intent ELSE "chat",
                      params |-> {"query"}]
        IN
        IF /\ exclude_intent # None /\ og_intents # <<>>
           /\ 0 <= idx /\ idx < Len(og_intents)
           /\ og_intents[idx + 1].intent = exclude_intent
        THEN /\ og_intents' = [og_intents EXCEPT ![idx + 1] = new_intent]
             /\ og_index' = idx
             /\ og_done' = og_done \ {idx + 1}
        ELSE /\ og_intents' = result
             /\ og_index' = 0
             /\ og_done' = {}
    /\ og_node' = "agent"
    /\ UNCHANGED << og_feedback, og_count, og_query, og_use_reflection,
                    og_responses, og_tools_used, og_agent, og_runs >>
    /\ UNCHANGED NotReroute

\* _agent_node (orchestrator.py): the route at current_intent_index runs
OldAgent ==
    /\ OldStep("agent")
    /\ IF og_index + 1 \notin 1..Len(og_intents)
       THEN \* IndexError leaves the node
            /\ og_node' = "error"
            /\ UNCHANGED << og_index, og_feedback, og_count, og_responses, og_tools_used, og_agent,
                            og_runs, og_done >>
       ELSE \E tools_used \in ToolLists :
            LET is_reflection == og_feedback.action \in {"retry", "reroute"}
                agent_name == IF AgentOf(og_intents[og_index + 1]) = None
                              THEN "TalkAgent"
                              ELSE AgentOf(og_intents[og_index + 1])
            IN  /\ og_tools_used' = tools_used
                /\ og_agent' = IF agent_name \in OldAgentKeys
                               THEN agent_name ELSE "TalkAgent"
                /\ og_node' = IF og_use_reflection THEN "reflector" ELSE "check_next"
                /\ og_index' = og_index + 1
                /\ og_feedback' = NoFeedback
                /\ og_count' = IF is_reflection THEN og_count ELSE 0
                /\ og_responses' =
                      IF is_reflection /\ og_responses # <<>>
                      THEN [og_responses EXCEPT ![Len(og_responses)] = og_runs + 1]
                      ELSE Append(og_responses, og_runs + 1)
                /\ og_runs' = og_runs + 1
                /\ og_done' = og_done \cup {og_index + 1}
    /\ UNCHANGED << og_intents, og_query, og_use_reflection >>
    /\ UNCHANGED NotReroute

\* _check_next_node (orchestrator.py)
OldCheckNext ==
    /\ OldStep("check_next")
    /\ og_node' = IF og_index < Len(og_intents) THEN "agent" ELSE "finalize"
    /\ UNCHANGED << og_intents, og_index, og_feedback, og_count, og_query,
                    og_use_reflection, og_responses, og_tools_used, og_agent, og_runs, og_done >>
    /\ UNCHANGED NotReroute

\* _finalize_node / _blocked_node (orchestrator.py): final_answer, END
OldEnd ==
    /\ og_node \in {"finalize", "blocked"}
    /\ OldStep(og_node)
    /\ og_node' = "END"
    /\ UNCHANGED << og_intents, og_index, og_feedback, og_count, og_query,
                    og_use_reflection, og_responses, og_tools_used, og_agent, og_runs, og_done >>
    /\ UNCHANGED NotReroute

\* The graph runtime: GraphRecursionError at the recursion limit
OldRecursionLimit ==
    /\ og_node \notin {"END", "error", "aborted"} /\ og_steps >= RecursionLimit
    /\ og_node' = "aborted"
    /\ UNCHANGED << og_intents, og_index, og_feedback, og_count, og_query,
                    og_use_reflection, og_responses, og_tools_used, og_agent, og_steps, og_runs,
                    og_done, og_trace >>
    /\ UNCHANGED NotReroute

RerouteNext ==
    \/ OldSafety
    \/ OldRouter
    \/ OldAgent
    \/ OldReflector
    \/ OldCheckNext
    \/ OldEnd
    \/ OldRecursionLimit

RerouteSpec == RerouteInit /\ [][RerouteNext]_vars

\* C19: a reroute replaces exactly the entry of the rejected route with the
\* single new route: the length of the list and every other entry are
\* unchanged, the cursor is the position of the rejected route, and the
\* replacement does not name the rejected intent.
C19_RerouteSplicesOneRoute ==
    [][ (og_node = "router" /\ og_feedback.action = "reroute")
          => LET rejected == og_index
             IN  /\ Len(og_intents') = Len(og_intents)
                 /\ \A i \in 1..Len(og_intents) :
                       i # rejected => og_intents'[i] = og_intents[i]
                 /\ og_index' = rejected - 1
                 /\ og_intents'[rejected].intent # og_intents[rejected].intent
      ]_vars

\* The callers suspended in _connect_one for a server.
Connecting(server) ==
    {c \in Callers : call_pc[c] \in {"connect0", "connect1"}
                        /\ call_server[c] = server}

\* C11: for each server at most one connection attempt is in flight at any
\* time, and a cached connection is never overwritten by a second one opened
\* concurrently.
C11_OneConnectionAttemptPerServer ==
    /\ [] (\A server \in Servers : Cardinality(Connecting(server)) <= 1)
    /\ [][ \A server \in Servers :
             clients[server] # {} => clients'[server] \in {clients[server], {}} ]_vars

\* The call failed at connection level: no connection could be opened, or the
\* retry on the new connection was dropped or got no answer in time.
ConnectionLevelFailure(c) ==
    call_raised[c] \in {"ConnectionError"} \cup ConnectionReasons

\* C12: MCPHandler.handle returns a payload with the unavailable flag exactly
\* when the call failed at connection level, and an error payload without
\* the flag when the tool itself reported the error.
C12_HandlerClassifiesFailures ==
    \A c \in Callers :
        call_payload[c] # <<>> =>
            /\ ("unavailable" \in call_payload[c][1]) <=> ConnectionLevelFailure(c)
            /\ call_raised[c] = "tool_error" => call_payload[c][1] = {"error"}

\* The agent executions whose tool server was down for the whole call.
DownRuns == {k \in 1..Len(agent_calls) : agent_calls[k].down}

\* C13: when the tool server of a route stays down for the whole call, the
\* route's reply is the unavailable message with success = false, no exception
\* leaves the agent node, and the session goes on: it is not cut short, and
\* at its end every route has its reply.
C13_ServerDownSessionContinues ==
    /\ \A k \in DownRuns : agent_calls[k].response = "unavailable"
    /\ \A i \in 1..Len(agent_responses) :
          agent_responses[i].answer \in DownRuns => ~agent_responses[i].success
    /\ DownRuns # {} => node \notin {"error", "aborted"}
    /\ (DownRuns # {} /\ node = "END")
          => Len(agent_responses) = Len(agent_requests)

C13_Witness ==
    /\ node = "END"
    /\ Len(agent_requests) = 2 /\ Len(agent_responses) = 2
    /\ agent_responses[1].answer \in DownRuns
    /\ ~agent_responses[1].success
    /\ agent_responses[2].answer \notin DownRuns
    /\ agent_responses[2].success

\* C14: if a server was unreachable at startup and is reachable when a later
\* session starts (here: and stays so until that session's refresh() ends),
\* then once that refresh has completed every tool of the server has an
\* agent and is a selectable intent of the router.
C14_RefreshRegistersLateServers ==
    [][ \A x \in Sessions :
          (ses_pc[x] # "done" /\ ses_pc'[x] = "done")
            => \A s \in boot_failed \cap ses_up'[x] :
                 /\ server_tools[s] \subseteq Names(agents')
                 /\ server_tools[s] \subseteq intent_names' ]_vars

\* C15: startup completes whichever servers fail to connect or to answer
\* discovery; after it the catalog holds exactly the tools of the servers
\* that connected and were discovered, and no agent of a failed server.
C15_StartupToleratesFailedServers ==
    [][ (boot_pc = "discover" /\ boot_pc' = "ready")
          => LET ok == {s \in Servers : s \notin boot_failed /\ up[s]}
                 tools == UNION {server_tools[s] : s \in ok}
             IN  /\ routing' = tools
                 /\ Names(agents') = tools
                 /\ \A a \in agents' : a.server \in ok
                 /\ discovered' = ok ]_vars

C15_Witness ==
    /\ boot_pc = "ready"
    /\ \A x \in Sessions : ses_pc[x] = "idle"
    /\ boot_failed # {}
    /\ discovered # {}
    /\ \E a \in agents : a.server \in discovered

\* C17: tools are keyed by (server, tool): every service that startup or a
\* refresh discovers gets its own agent, also when another server has a tool
\* of the same name, and no registration removes an agent registered before.
C17_ToolsKeyedByServerAndName ==
    [][ /\ agents \subseteq agents'
        /\ (boot_pc = "discover" /\ boot_pc' = "ready")
              => Discover(clients, up, Servers) \subseteq agents'
        /\ \A x \in Sessions :
              (ses_pc[x] = "discover" /\ ses_pc'[x] = "done")
                => Discover(clients, up, ses_new[x]) \subseteq agents' ]_vars

\* C16: a call to a server that never answers does not block forever: from
\* every step of MCPClient.call (first attempt, reconnect, retry) the call
\* eventually returns a result or raises a failure.
C16_CallEventuallyEnds ==
    \A c \in Callers :
        (call_pc[c] \in {"connect0", "attempt1", "connect1", "attempt2"})
            ~> (call_pc[c] \in {"returned", "raised"})

\* The node names the spec lists, and the nodes build_state_graph adds.
SpecNodeNames == {"moderation", "router", "agent", "reflector", "finalize"}
GraphNodeNames == SpecNodeNames \cup {"check_next"}

\* Every completed node execution adds exactly one event, named after the
\* node that ran, at the end of the stream; nothing else changes the stream.
OneEventPerTransition ==
    /\ [] (node # "error" => Len(events) = steps)
    /\ [][ IF steps' = steps + 1 /\ node' # "error"
           THEN events' = Append(events, node)
           ELSE events' = events ]_vars

C7_OneResultPerRoute ==
    sse_answers # <<>> =>
        /\ Len(sse_answers[1]) = Len(intent_results)
        /\ \A i \in 1..Len(intent_results) :
              sse_answers[1][i].intent = intent_results[i].intent

\* C9: for every model output the router returns at least one route, and
\* exactly the default chat route with empty params when decoding or
\* validation fails.
C9_RouterReturnsAtLeastOneRoute ==
    router_out # <<>> =>
        /\ Len(router_out[1]) >= 1
        /\ ~model_validate_json(router_text) =>
              router_out[1] = << [intent |-> "chat", params |-> EmptyParams] >>

(***************************************************************************)
(* The chat providers (llm/gemini.py, llm/anthropic.py, llm/openai.py,     *)
(* llm/ollama.py): one ask or query call, API call by API call.            *)
(***************************************************************************)
Providers == {"GeminiChat", "AnthropicChat", "OpenAIChat", "OllamaChat"}

\* ask(messages) -> _plain, ask(messages, tools) -> _with_tools,
\* query(messages, schema) -> _plain
ChatOps == {"ask", "ask_tools", "query"}

\* max_tool_rounds: int = 3
max_tool_rounds == 3

\* The except clauses around the provider's API call: whether the SDK's API
\* error is caught there.
CatchesApiError(provider) == provider \in {"GeminiChat", "AnthropicChat", "OpenAIChat"}

\* _with_tools runs the tool loop itself (Gemini leaves it to the SDK's
\* automatic function calling).
LoopsOverTools(provider) == provider \in {"AnthropicChat", "OpenAIChat", "OllamaChat"}

ChatInit ==
    /\ LlmIdle
    /\ GraphIdle /\ RouterIdle /\ StreamIdle /\ McpIdle /\ RegistryIdle /\ RerouteIdle /\ TrackerIdle /\ FiltersIdle /\ ParseIdle

\* ask / query is called: the first API call is pending
ChatStart(provider, op) ==
    /\ chat_pc = "idle"
    /\ chat_provider' = provider
    /\ chat_op' = op
    /\ chat_pc' = "create"
    /\ chat_requests' = 1
    /\ UNCHANGED << chat_round, chat_tokens, chat_tools_used, chat_failed,
                    chat_reply >>
    /\ UNCHANGED NotLlm

\* the pending API call raises the SDK's API error
ChatCreateFails ==
    /\ chat_pc = "create"
    /\ chat_failed' = TRUE
    /\ IF CatchesApiError(chat_provider)
       THEN /\ chat_pc' = "returned"
            /\ chat_reply' = << [success |-> FALSE, text |-> "error",
                                 tokens |-> NoTokens, tools_used |-> 0] >>
       ELSE /\ chat_pc' = "raised"
            /\ chat_reply' = <<>>
    /\ UNCHANGED << chat_provider, chat_op, chat_round, chat_requests,
                    chat_tokens, chat_tools_used >>
    /\ UNCHANGED NotLlm

AddTokens(t, u) ==
    [input_tokens |-> t.input_tokens + u.input_tokens,
     output_tokens |-> t.output_tokens + u.output_tokens]

\* the pending API call answers with text and no tool call
ChatCreateAnswers ==
    /\ chat_pc = "create"
    /\ \E usage \in Usages :
          /\ chat_tokens' = AddTokens(chat_tokens, usage)
          /\ chat_reply' = << [success |-> TRUE, text |-> "text",
                               tokens |-> AddTokens(chat_tokens, usage),
                               tools_used |-> chat_tools_used] >>
    /\ chat_pc' = "returned"
    /\ UNCHANGED << chat_provider, chat_op, chat_round, chat_requests,
                    chat_tools_used, chat_failed >>
    /\ UNCHANGED NotLlm

\* for _ in range(self.max_tool_rounds), read one round too far
LoopEndsLate(rounds) == rounds = max_tool_rounds + 1

\* for _ in range(self.max_tool_rounds): the loop is over after that many
\* rounds
LoopEnds(rounds) == rounds = max_tool_rounds

\* _with_tools: the pending API call answers with tool calls; the tools run
\* (their exceptions become the tool result) and the loop goes on, or ends
\* after max_tool_rounds calls with the last response's text
ChatCreateCallsTools ==
    /\ chat_pc = "create"
    /\ chat_op = "ask_tools" /\ LoopsOverTools(chat_provider)
    /\ \E usage \in Usages, known \in BOOLEAN :
          /\ chat_tokens' = AddTokens(chat_tokens, usage)
          /\ chat_round' = chat_round + 1
          \* fn = tools.get(name): an unknown tool is not added to tools_used
          /\ chat_tools_used' = chat_tools_used + (IF known THEN 1 ELSE 0)
          /\ IF LoopEnds(chat_round + 1)
             THEN /\ chat_pc' = "returned"
                  /\ chat_requests' = chat_requests
                  /\ chat_reply' = << [success |-> TRUE, text |-> "text",
                                       tokens |-> AddTokens(chat_tokens, usage),
                                       tools_used |-> chat_tools_used
                                           + (IF known THEN 1 ELSE 0)] >>
             ELSE /\ chat_pc' = "create"
                  /\ chat_requests' = chat_requests + 1
                  /\ chat_reply' = <<>>
    /\ UNCHANGED << chat_provider, chat_op, chat_failed >>
    /\ UNCHANGED NotLlm

ChatNext ==
    \/ \E provider \in Providers, op \in ChatOps : ChatStart(provider, op)
    \/ ChatCreateFails
    \/ ChatCreateAnswers
    \/ ChatCreateCallsTools

ChatSpec == ChatInit /\ [][ChatNext]_vars

\* C21: for every provider and both operations an API error of the provider
\* is never raised to the caller: the call returns a Reply with success =
\* FALSE and an explanatory text.
C21_ApiErrorsBecomeFailedReplies ==
    /\ chat_pc # "raised"
    /\ (chat_pc = "returned" /\ chat_failed)
          => /\ chat_reply[1].success = FALSE
             /\ chat_reply[1].text = "error"

(***************************************************************************)
(* MetricsTracker.record (metrics/tracker.py), called by several sessions' *)
(* threads.  A thread can be preempted between the read and the write of   *)
(* `self._request_counter += 1`, and anywhere outside `with self._lock`.   *)
(***************************************************************************)
\* The record() calls the sessions make, all together.
MaxRecords == 3

TrackerInit ==
    /\ TrackerIdle
    /\ GraphIdle /\ RouterIdle /\ StreamIdle /\ McpIdle /\ RegistryIdle /\ RerouteIdle /\ LlmIdle /\ TrackerIdle /\ FiltersIdle /\ ParseIdle

\* record() is entered (the tracker is enabled): _next_id() is about to run
RecordStart(x) ==
    /\ rec_pc[x] = "idle" /\ rec_calls < MaxRecords
    /\ rec_calls' = rec_calls + 1
    /\ rec_pc' = [rec_pc EXCEPT ![x] = "load"]
    /\ UNCHANGED << request_counter, requests, tracker_lock, rec_loaded, rec_id >>
    /\ UNCHANGED NotTracker

\* _next_id: self._request_counter += 1, the read
NextIdLoad(x) ==
    /\ rec_pc[x] = "load"
    /\ rec_loaded' = [rec_loaded EXCEPT ![x] = request_counter]
    /\ rec_pc' = [rec_pc EXCEPT ![x] = "store"]
    /\ UNCHANGED << request_counter, requests, tracker_lock, rec_id, rec_calls >>
    /\ UNCHANGED NotTracker

\* _next_id: self._request_counter += 1, the write
NextIdStore(x) ==
    /\ rec_pc[x] = "store"
    /\ request_counter' = rec_loaded[x] + 1
    /\ rec_pc' = [rec_pc EXCEPT ![x] = "format"]
    /\ UNCHANGED << requests, tracker_lock, rec_loaded, rec_id, rec_calls >>
    /\ UNCHANGED NotTracker

\* _next_id: return f"req_{self._request_counter:06d}"
NextIdFormat(x) ==
    /\ rec_pc[x] = "format"
    /\ rec_id' = [rec_id EXCEPT ![x] = request_counter]
    /\ rec_pc' = [rec_pc EXCEPT ![x] = "acquire"]
    /\ UNCHANGED << request_counter, requests, tracker_lock, rec_loaded, rec_calls >>
    /\ UNCHANGED NotTracker

\* with self._lock: the lock is taken
RecordAcquire(x) ==
    /\ rec_pc[x] = "acquire" /\ tracker_lock = None
    /\ tracker_lock' = x
    /\ rec_pc' = [rec_pc EXCEPT ![x] = "append"]
    /\ UNCHANGED << request_counter, requests, rec_loaded, rec_id, rec_calls >>
    /\ UNCHANGED NotTracker

\* self._requests.append(metrics), the lock is released and record() returns
RecordAppend(x) ==
    /\ rec_pc[x] = "append" /\ tracker_lock = x
    /\ requests' = Append(requests, rec_id[x])
    /\ tracker_lock' = None
    /\ rec_pc' = [rec_pc EXCEPT ![x] = "idle"]
    /\ UNCHANGED << request_counter, rec_loaded, rec_id, rec_calls >>
    /\ UNCHANGED NotTracker

TrackerNext ==
    \E x \in Sessions :
        \/ RecordStart(x)
        \/ NextIdLoad(x)
        \/ NextIdStore(x)
        \/ NextIdFormat(x)
        \/ RecordAppend(x)
        \/ RecordAcquire(x)

TrackerSpec == TrackerInit /\ [][TrackerNext]_vars

\* The record() calls that have returned.
Recorded == rec_calls - Cardinality({x \in Sessions : rec_pc[x] # "idle"})

\* C22: under concurrent record() calls no entry is lost and every entry has
\* a request id of its own: the counter and the list are updated as one
\* atomic step.
C22_NoEntryLostAndIdsDistinct ==
    /\ Len(requests) = Recorded
    /\ \A i, j \in 1..Len(requests) : i # j => requests[i] # requests[j]
    /\ (\A x \in Sessions : rec_pc[x] = "idle") => request_counter = Len(requests)

(***************************************************************************)
(* Moderator.moderate (orchestrator/moderator.py) and run_moderation with  *)
(* its model-backed classifier (safety/filters.py) as functions of the     *)
(* text.  A text is a sequence of words and whitespace characters.         *)
(***************************************************************************)
\* The longest text.
MaxTextLen == 3

\* " " is a whitespace character, "kill" matches a block pattern, "hack" a
\* warn pattern, "hi" matches none.
Words == {" ", "kill", "hack", "hi"}
Texts == SeqsUpTo(Words, MaxTextLen)

RECURSIVE lstrip(_)
lstrip(text) ==
    IF text # <<>> /\ text[1] = " " THEN lstrip(Tail(text)) ELSE text

RECURSIVE rstrip(_)
rstrip(text) ==
    IF text # <<>> /\ text[Len(text)] = " "
    THEN rstrip(SubSeq(text, 1, Len(text) - 1)) ELSE text

\* str.strip()
strip(text) == rstrip(lstrip(text))

\* re.search(pattern, text) for the pattern of one word
search(word, text) == \E i \in 1..Len(text) : text[i] = word

\* What Moderator.moderate reads of the text: `not text or not text.strip()`,
\* re.search of the BLOCK_PATTERNS and of the WARN_PATTERNS on text.strip().
QueryOf(text) ==
    [empty |-> strip(text) = <<>>,
     block |-> search("kill", strip(text)),
     warn |-> search("hack", strip(text))]

\* `return None` of a function that returns a ModerationResult otherwise
NoResult == [verdict |-> None, severity |-> None, rationale |-> None]

\* check_patterns: the block patterns first, then the warn patterns
check_patterns(text) ==
    IF search("kill", text)
    THEN [verdict |-> "block", severity |-> "high", rationale |-> "Pattern"]
    ELSE IF search("hack", text)
    THEN [verdict |-> "warn", severity |-> "medium", rationale |-> "Pattern"]
    ELSE NoResult

\* The classifier passed as llm: none, one whose complete() raises, one whose
\* answer names a verdict that is no Verdict, one whose answer has none of the
\* fields, or one that answers with a verdict.
LlmBehaviours ==
    {"none", "raises", "unparsable", "no_fields", "allow", "warn", "block"}

\* _parse_moderation_response
ParseModerationResponse(answer) ==
    IF answer = "unparsable" THEN NoResult  \* Verdict(...) raises ValueError
    ELSE IF answer = "no_fields"
    THEN [verdict |-> "allow", severity |-> "low", rationale |-> None]
    ELSE [verdict |-> answer, severity |-> "low", rationale |-> "llm"]

\* _run_llm_moderation
RunLlmModeration(llm) ==
    IF llm = "raises" THEN NoResult      \* except Exception: return None
    ELSE ParseModerationResponse(llm)

\* run_moderation
run_moderation(text, llm) ==
    LET t == strip(text) IN
    IF t = <<>>
    THEN [verdict |-> "block", severity |-> "high", rationale |-> "Empty input"]
    ELSE IF check_patterns(t) # NoResult THEN check_patterns(t)
    ELSE IF llm # "none" /\ RunLlmModeration(llm) # NoResult THEN RunLlmModeration(llm)
    ELSE [verdict |-> "allow", severity |-> "low",
          rationale |-> "No issues detected"]

FiltersInit ==
    /\ mod_text \in Texts
    /\ mod_llm \in LlmBehaviours
    /\ mod_out = <<>>
    /\ filt_out = <<>>
    /\ GraphIdle /\ RouterIdle /\ StreamIdle /\ McpIdle /\ RegistryIdle /\ RerouteIdle /\ LlmIdle /\ TrackerIdle /\ ParseIdle

\* moderation = moderator.moderate(text)
ModerateCall ==
    /\ mod_out = <<>>
    /\ mod_out' = << moderate(QueryOf(mod_text)) >>
    /\ UNCHANGED << mod_text, mod_llm, filt_out >>
    /\ UNCHANGED NotFilters

\* result = run_moderation(text, llm)
RunModerationCall ==
    /\ filt_out = <<>>
    /\ filt_out' = << run_moderation(mod_text, mod_llm) >>
    /\ UNCHANGED << mod_text, mod_llm, mod_out >>
    /\ UNCHANGED NotFilters

FiltersNext == ModerateCall \/ RunModerationCall

FiltersSpec == FiltersInit /\ [][FiltersNext]_vars

\* The classifier was asked and failed: the patterns let the text through,
\* and complete() raised or its answer could not be parsed.
ClassifierFailed ==
    /\ strip(mod_text) # <<>> /\ check_patterns(strip(mod_text)) = NoResult
    /\ mod_llm \in {"raises", "unparsable"}

\* C23: when the classifier raises or its output cannot be parsed, the gate
\* returns (it does not raise) verdict allow, and the result carries an
\* annotation that records the failure: it is not the result the same text
\* gets with no classifier failure.
C23_ClassifierFailureIsAnnotated ==
    (filt_out # <<>> /\ ClassifierFailed)
        => /\ filt_out[1].verdict = "allow"
           /\ filt_out[1] # run_moderation(mod_text, "none")

\* C24: moderate returns block for every empty or whitespace-only text, and
\* block for a text that matches a block pattern and a warn pattern; so does
\* run_moderation.
C24_EmptyAndBlockTakePrecedence ==
    LET blank == \A i \in 1..Len(mod_text) : mod_text[i] = " "
        both == search("kill", mod_text) /\ search("hack", mod_text)
    IN  /\ (mod_out # <<>> /\ (blank \/ both)) => mod_out[1].verdict = "block"
        /\ (filt_out # <<>> /\ (blank \/ both)) => filt_out[1].verdict = "block"

\* a text whose warn word comes before its block word has been moderated
C24_Witness ==
    /\ mod_out # <<>> /\ filt_out # <<>>
    /\ mod_text = << "hack", " ", "kill" >>
    /\ mod_out[1].verdict = "block"

(***************************************************************************)
(* Claims about the transitions of a session, for the graph of             *)
(* orchestrator/nodes.py (node) and the graph of                           *)
(* orchestrator/orchestrator.py (og_node).                                 *)
(***************************************************************************)
SpecEdges ==
    { << "moderation", "router" >>, << "moderation", "finalize" >>,
      << "router", "agent" >>, << "agent", "reflector" >>,
      << "agent", "check_next" >>, << "reflector", "check_next" >>,
      << "check_next", "agent" >>, << "check_next", "finalize" >> }

\* The entry node of orchestrator.py is named "safety" and its blocked
\* sessions end in a node of their own, "blocked".
SpecName(n) ==
    IF n = "safety" THEN "moderation"
    ELSE IF n = "blocked" THEN "finalize" ELSE n

\* One step from node n to node m follows an edge; a session that stops with
\* an exception takes no edge.
FollowsEdge(n, m) ==
    \/ m = n
    \/ m \in {"error", "aborted"}
    \/ << n, m >> \in SpecEdges
    \/ n = "finalize" /\ m = "END"

\* C25: every step of a session follows one of the edges moderation->router,
\* moderation->finalize, router->agent, agent->reflector, agent->check_next,
\* reflector->check_next, check_next->agent, check_next->finalize; the
\* reflector never hands control to agent or router, and finalize has no
\* successor node.
C25_SessionFollowsGraphEdges ==
    /\ [][ FollowsEdge(node, node') ]_vars
    /\ [][ FollowsEdge(SpecName(og_node), SpecName(og_node')) ]_vars

\* C26: check_next returns to agent at the same cursor only when the
\* reflection is retry and its count is under max_reflections; when the count
\* has reached max_reflections and the action is retry, check_next advances
\* the cursor, to agent if routes remain and to finalize otherwise, and the
\* route is not executed again, so its current reply stays in the output.
C26_CheckNextAdvancesAtBudget ==
    /\ [][ (node = "check_next" /\ node' \notin {"check_next", "aborted"})
             => /\ (node' = "agent" /\ IsRetry(reflection))
                      => /\ reflection.action = "retry"
                         /\ reflection.count < max_reflections
                /\ (reflection.action = "retry"
                        /\ reflection.count >= max_reflections)
                      => /\ ~IsRetry(reflection)
                         /\ node' = IF cursor < Len(agent_requests)
                                    THEN "agent" ELSE "finalize" ]_vars
    /\ [][ ( /\ og_node = "check_next"
             /\ og_node' \notin {"check_next", "aborted"}
             /\ og_feedback.action = "retry"
             /\ og_count >= og_max_reflections )
             \* the agent runs next only for a route it has not executed
             => /\ og_node' \in {"agent", "finalize"}
                /\ og_node' = "agent" => og_index + 1 \notin og_done ]_vars

\* The nodes of a blocked session, in either graph.
BlockedPath(trace) ==
    \A i \in 1..Len(trace) : SpecName(trace[i]) \in {"moderation", "finalize"}

\* C27: when moderation blocks the query the next node is finalize; router,
\* agent and reflector never run in that session, the route list and the
\* reply list stay empty and the usage log is empty at finalize.
C27_BlockedSessionSkipsTheGraph ==
    /\ [][ (node = "moderation" /\ moderate(query).verdict = "block")
             => node' \in {"moderation", "finalize"} ]_vars
    /\ [] ( (moderate(query).verdict = "block" /\ node # "moderation")
              => /\ node \in {"finalize", "END"}
                 /\ BlockedPath(events)
                 /\ agent_requests = <<>>
                 /\ node = "finalize" => agent_responses = <<>>
                 /\ token_log = <<>>
                 /\ agent_runs = 0 /\ verdicts = <<>> )
    /\ [] ( (moderate(og_query).verdict = "block" /\ og_node # "safety")
              => /\ SpecName(og_node) \in {"finalize", "END"}
                 /\ BlockedPath(og_trace)
                 /\ og_intents = <<>>
                 /\ og_responses = <<>>
                 /\ og_runs = 0 )

C27_Witness ==
    /\ moderate(query).verdict = "block" /\ ~query.empty
    /\ node = "END"
    /\ events = << "moderation", "finalize" >>
    /\ token_log = <<>>

\* The node names of a trace.
Ran(trace, name) == \E i \in 1..Len(trace) : trace[i] = name

\* C28: with reflection enabled the reflector runs after an agent execution
\* exactly when the route's intent is not smalltalk or the reply used a tool;
\* a smalltalk reply that used no tools goes from agent to check_next; with
\* reflection disabled the reflector never runs and every route is executed
\* exactly once.
C28_ReflectorRunsUnlessPlainSmalltalk ==
    /\ [][ (node = "agent" /\ node' \notin {"agent", "error", "aborted"})
             => LET reply == agent_responses'[Len(agent_responses')]
                    plain == reply.intent = SMALLTALK /\ reply.tools_used = <<>>
                IN  node' = IF use_reflection /\ ~plain
                            THEN "reflector" ELSE "check_next" ]_vars
    /\ [] ( ~use_reflection
              => /\ ~Ran(events, "reflector") /\ verdicts = <<>>
                 /\ (node = "END" /\ agent_requests # <<>>)
                       => agent_runs = Len(agent_requests) )
    /\ [][ (og_node = "agent" /\ og_node' \notin {"agent", "error", "aborted"})
             => LET plain == /\ og_intents[og_index + 1].intent = SMALLTALK
                             /\ og_tools_used' = <<>>
                IN  og_node' = IF og_use_reflection /\ ~plain
                               THEN "reflector" ELSE "check_next" ]_vars
    /\ [] ( ~og_use_reflection
              => /\ ~Ran(og_trace, "reflector")
                 /\ og_node = "END" => og_runs = Len(og_intents) )

\* The agent of orchestrator.py is about to execute a route for the first
\* time: the position is not executed yet and was not just re-routed.
OldFirstExecution ==
    /\ og_node = "agent"
    /\ og_index + 1 \in 1..Len(og_intents)
    /\ og_index + 1 \notin og_done
    /\ ~(og_trace[Len(og_trace)] = "router" /\ og_feedback.action = "reroute")

\* C29: the reflection count never decreases while the cursor stays on one
\* route, increases by exactly 1 per reflector evaluation, and is 0 when the
\* agent first executes a new route.
C29_CountPerRoute ==
    /\ [][ /\ reflection'.count < reflection.count => cursor' # cursor
           /\ reflection'.count > reflection.count => node = "reflector"
           /\ (node = "reflector" /\ node' \notin {"reflector", "aborted"})
                 => reflection'.count = reflection.count + 1
           /\ (node = "agent" /\ cursor' # cursor)
                 => reflection'.count = 0 ]_vars
    /\ [][ /\ og_count' < og_count => OldFirstExecution
           /\ og_count' > og_count => og_node = "reflector"
           /\ (og_node = "reflector" /\ og_node' \notin {"reflector", "aborted"})
                 => og_count' = og_count + 1
           /\ (OldFirstExecution /\ og_node' \notin {"agent", "aborted"})
                 => og_count' = 0 ]_vars

\* ---------------------------------------------------------------------
\* Reflector._parse_reflection (orchestrator/reflector.py)
\* ---------------------------------------------------------------------

\* The value under "action" of a JSON object: absent, a string, a number or
\* null.
ActionFields ==
    {[type |-> "absent", str |-> ""], [type |-> "num", str |-> ""],
     [type |-> "null", str |-> ""]}
      \cup {[type |-> "str", str |-> x] :
               x \in {"accept", "retry", "reroute", "ACCEPT", "bogus"}}

\* The value under "score": absent, a number, a string float() reads, a
\* string it does not read, or null.
ScoreFields == {"absent", "float", "numeric_str", "text", "null"}

Junk == [kind |-> "junk", action |-> [type |-> "absent", str |-> ""], score |-> "absent"]

\* What the evaluator may write: text that is no JSON, a JSON value that is
\* not an object, or an object.
Bodies ==
    {Junk}
      \cup {[Junk EXCEPT !.kind = k] : k \in {"list", "number", "string", "null"}}
      \cup {[kind |-> "object", action |-> a, score |-> sc] :
               a \in ActionFields, sc \in ScoreFields}

\* The body alone, inside a closed ``` fence, or after a ``` that is never
\* closed.
EvaluatorTexts == [fence : {"none", "closed", "open"}, body : Bodies]

\* re.search(r"```(?:json)?\s*(.*?)```"): the text json.loads is given
Extracted(text) ==
    IF text.fence = "open" THEN Junk ELSE text.body

\* str.lower
lower(str) == IF str = "ACCEPT" THEN "accept" ELSE str

\* The exception the try block of _parse_reflection ends with, None when it
\* reaches its return.
ParseException(text) ==
    LET data == Extracted(text)
    IN  IF data.kind = "junk" THEN "JSONDecodeError"
        ELSE IF data.kind # "object" THEN "AttributeError"
        ELSE IF data.action.type \in {"num", "null"} THEN "AttributeError"
        ELSE IF data.score = "text" THEN "ValueError"
        ELSE IF data.score = "null" THEN "TypeError"
        ELSE None

\* except (json.JSONDecodeError, KeyError, TypeError, ValueError)
CaughtByParse == {"JSONDecodeError", "KeyError", "TypeError", "ValueError"}

\* _parse_reflection when it returns
ParseReflection(text, agent_success) ==
    IF ParseException(text) = None
    THEN LET data == Extracted(text)
             action == lower(data.action.str)
         IN  [action |-> IF action \notin VALID_ACTIONS THEN "accept" ELSE action,
              score |-> IF data.score = "absent" THEN None ELSE "float",
              feedback |-> "feedback"]
    ELSE [action |-> IF ~agent_success THEN "reroute" ELSE "accept",
          score |-> None,
          feedback |-> "Reflection parse failed"]

ParseInit ==
    /\ refl_text \in EvaluatorTexts
    /\ refl_agent_success \in BOOLEAN
    /\ refl_pc = "call"
    /\ refl_out = <<>>
    /\ GraphIdle /\ RouterIdle /\ StreamIdle /\ McpIdle /\ RegistryIdle
    /\ RerouteIdle /\ LlmIdle /\ TrackerIdle /\ FiltersIdle

\* Reflector.execute: _parse_reflection returns
ParseReturns ==
    /\ refl_pc = "call"
    /\ ParseException(refl_text) \in CaughtByParse \cup {None}
    /\ refl_out' = << ParseReflection(refl_text, refl_agent_success) >>
    /\ refl_pc' = "returned"
    /\ UNCHANGED << refl_text, refl_agent_success >>
    /\ UNCHANGED NotParse

\* Reflector.execute: an exception the except clause does not name leaves
\* _parse_reflection, execute and __call__
ParseRaises ==
    /\ refl_pc = "call"
    /\ ParseException(refl_text) \notin CaughtByParse \cup {None}
    /\ refl_pc' = "raised"
    /\ UNCHANGED << refl_text, refl_agent_success, refl_out >>
    /\ UNCHANGED NotParse

ParseNext == ParseReturns \/ ParseRaises

ParseSpec == ParseInit /\ [][ParseNext]_vars

\* C30: when the evaluator's output cannot be parsed the reflector does not
\* raise and returns action retry if the agent reported failure and action
\* accept otherwise; the returned action is always one of the defined
\* actions.
C30_UnparsableFallsBack ==
    /\ refl_pc # "raised"
    /\ refl_pc = "returned"
          => /\ refl_out[1].action \in VALID_ACTIONS
             /\ ParseException(refl_text) # None
                   => refl_out[1].action =
                         IF ~refl_agent_success THEN "retry" ELSE "accept"

\* The arguments of the last agent.execute.
LastCall == agent_calls[Len(agent_calls)]

OldRegistered(intent) ==
    IF \E k \in OldAgentKeys : OldRoutingIntent[k] = intent
    THEN CHOOSE k \in OldAgentKeys : OldRoutingIntent[k] = intent
    ELSE "TalkAgent"

\* C32: for every route the agent node invokes the capability registered
\* under the route's intent when one exists and the default chat capability
\* otherwise; a route with an unregistered intent never makes the agent node
\* fail, and its stored reply is tagged with the route's own intent.
C32_RegisteredAgentOrChat ==
    /\ [][ (node = "agent" /\ agent_runs' = agent_runs + 1)
             => LET call == agent_calls'[Len(agent_calls')]
                    route == agent_requests[call.pos]
                IN  /\ call.agent = IF route.intent \in AgentKeys
                                    THEN route.intent ELSE "chat"
                    /\ agent_responses'[call.pos].intent = route.intent
                    /\ node' \in {"reflector", "check_next"} ]_vars
    /\ [][ (node = "agent" /\ node' = "error")
             => (IF IsRetry(reflection) THEN cursor ELSE cursor + 1)
                    \notin 1..Len(agent_requests) ]_vars
    /\ [][ (og_node = "agent" /\ og_runs' = og_runs + 1)
             => /\ og_agent' = OldRegistered(og_intents[og_index + 1].intent)
                /\ og_node' \in {"reflector", "check_next"} ]_vars

\* C33: every retry re-entry into the agent node is immediately preceded by
\* a reflector evaluation of the reply the previous agent execution of that
\* route produced: check_next never returns control to agent on the basis of
\* a reflection computed for an earlier reply.
C33_RetryFollowsFreshReflection ==
    [][ (node = "check_next" /\ node' = "agent" /\ IsRetry(reflection))
          => /\ verdicts # <<>>
             /\ LastVerdict.answer = agent_responses[cursor].answer
             /\ events[Len(events)] = "reflector" ]_vars

\* C34: in every reachable state reflection.retry_query and retry_history
\* are set only if reflection.action is retry, the session has a single route
\* and reflection.count < max_reflections; the reflector stores no retry
\* context once the count has reached max_reflections.
C34_RetryContextOnlyWithinBudget ==
    /\ (reflection.retry_query # None \/ reflection.retry_history # NoHistory)
          => /\ reflection.action = "retry"
             /\ Len(agent_requests) = 1
             /\ reflection.count < max_reflections
    /\ reflection.count >= max_reflections
          => /\ reflection.retry_query = None
             /\ reflection.retry_history = NoHistory

\* The reflector asked for a retry at the budget and stored no context.
C34_Witness ==
    /\ node = "check_next"
    /\ reflection.action = "retry"
    /\ reflection.count = max_reflections
    /\ reflection.retry_query = None
    /\ Len(verdicts) = max_reflections

\* The k-th agent execution is the first one of its route.
FirstExecution(k) == k = 1 \/ agent_calls[k - 1].pos # agent_calls[k].pos

\* C35: after the router node has run no node modifies the session's query,
\* history or route list, and no node after moderation modifies the
\* moderation verdict: a retry passes its retry query and retry history to
\* the agent without storing them over query / history, so every first
\* execution of a route gets the original query and history.
C35_QueryHistoryRoutesAreFrozen ==
    /\ [][ node \notin {"moderation", "router"}
             => /\ query' = query
                /\ history' = history
                /\ agent_requests' = agent_requests ]_vars
    /\ [][ node # "moderation" => moderation' = moderation ]_vars
    /\ [] ( /\ history = SessionHistory
            /\ \A k \in 1..Len(agent_calls) :
                  FirstExecution(k)
                    => /\ agent_calls[k].history = SessionHistory
                       /\ agent_calls[k].query \in {"query", "params_query"} )

\* A session that retried its route has ended with its history as it began.
C35_Witness ==
    /\ node = "END"
    /\ \E k \in 1..Len(agent_calls) :
          /\ agent_calls[k].query = "retry_query"
          /\ agent_calls[k].history # SessionHistory
    /\ history = SessionHistory
    /\ moderation = moderate(query)

\* C36: under concurrent tool calls to the same server the eviction a
\* failing call performs removes only the connection that call used, never
\* one that another call or a refresh has established in the meantime, and a
\* call starts no call_tool on a connection that is no longer cached.
C36_EvictionRemovesOwnConnectionOnly ==
    [][ \A c \in Callers :
          /\ (call_pc[c] = "attempt1" /\ call_pc'[c] = "connect1")
                => \A server \in Servers :
                      clients'[server] # clients[server]
                        => clients[server] = call_client[c]
          /\ (call_pc'[c] \in {"attempt1", "attempt2"} /\ call_pc'[c] # call_pc[c])
                => /\ call_client'[c] # {}
                   /\ call_client'[c] = clients'[call_server'[c]] ]_vars

\* C37: a server is added to the registry's discovered set only after its
\* tool discovery has succeeded; a server whose connection succeeded but
\* whose discovery failed stays pending, so that the next refresh() tries it
\* again.
C37_DiscoveredOnlyAfterDiscovery ==
    [][ \A s \in Servers :
          (s \in discovered' /\ s \notin discovered)
            => /\ clients[s] # {} /\ up[s]
               /\ server_tools[s] \subseteq routing'
               /\ server_tools[s] \subseteq Names(agents') ]_vars

\* C38: refresh() is idempotent: after any sequence of refresh() calls,
\* sequential or from concurrent sessions, each discovered tool appears
\* exactly once in the agents map, the routing map and the router catalog,
\* and a refresh() with no pending server changes none of them.
C38_RefreshIsIdempotent ==
    /\ [] ( \* tools that differ in their names (the other case is C17's)
            (\A s, t \in Servers :
                s # t => server_tools[s] \cap server_tools[t] = {})
            => \A n \in routing :
                  /\ Cardinality({a \in agents : a.name = n}) = 1
                  /\ n \in intent_names
                  /\ descriptions[n] = 1 )
    /\ [][ \A x \in Sessions :
             (ses_pc[x] = "idle" /\ ses_pc'[x] # "idle" /\ Servers \ discovered = {})
               => /\ ses_pc'[x] = "done"
                  /\ UNCHANGED << agents, routing, intent_names, descriptions,
                                  discovered >> ]_vars

(***************************************************************************)
(* The tool loop of _with_tools (llm/ollama.py, llm/anthropic.py,          *)
(* llm/openai.py): number of requests, termination, usage of the Reply.    *)
(***************************************************************************)
\* A pending request to the provider comes back: it answers, asks for tools
\* or raises the SDK's error (the call is a blocking one inside the loop).
ChatRequestResolves == ChatCreateFails \/ ChatCreateAnswers \/ ChatCreateCallsTools

ChatLiveSpec == ChatSpec /\ WF_vars(ChatRequestResolves)

RunsToolLoop == chat_op = "ask_tools" /\ LoopsOverTools(chat_provider)

\* C39: one ask() with tools sends at most max_tool_rounds requests to the
\* provider and always terminates, whatever the model answers; when the model
\* still asks for tools in the last round, the loop stops there and a Reply
\* is returned.
C39_ToolLoopIsBounded ==
    /\ [](RunsToolLoop => chat_requests <= max_tool_rounds)
    /\ [][(/\ RunsToolLoop
           /\ chat_pc = "create"
           /\ chat_requests = max_tool_rounds
           /\ chat_round' = chat_round + 1)
          => (/\ chat_pc' = "returned"
              /\ chat_requests' = max_tool_rounds
              /\ Len(chat_reply') = 1
              /\ chat_reply'[1].success)]_vars
    /\ ((RunsToolLoop /\ chat_pc = "create") ~> (chat_pc \in {"returned", "raised"}))

C39_Witness ==
    /\ RunsToolLoop
    /\ chat_pc = "returned"
    /\ chat_round = max_tool_rounds
    /\ chat_requests = max_tool_rounds
    /\ Len(chat_reply) = 1
    /\ chat_reply[1].success

\* C40: the token usage of the Reply returned by ask() with tools is the sum
\* of the usage of every provider request made during the call, on every exit
\* of the tool loop, the exit on a provider error after completed rounds
\* included.
C40_ReplyUsageIsTheSum ==
    (RunsToolLoop /\ chat_pc = "returned")
        => /\ Len(chat_reply) = 1
           /\ chat_reply[1].tokens = chat_tokens

====
